---- MODULE Spec2Model ----
(***************************************************************************)
(* Disaster-recovery automation scripts (dr-scripts): the Data Factory     *)
(* trigger driver with its resource-group locks, the Snowflake linked-     *)
(* service FQDN rewrite, the Batch pool scaling and the Key Vault secret   *)
(* sync, modelled from the Python sources.  The Azure control plane is the *)
(* environment: every SDK call either takes effect or raises.              *)
(***************************************************************************)
EXTENDS Integers, Sequences, FiniteSets, TLC

\* ------------------------------------------------------------------ bounds
MaxLocks == 2
MaxTriggers == 2
MaxHostLen == 2
MaxNodes == 5
MaxSecrets == 2
MaxClock == 6
MaxTokens == 2
MaxThreads == 2
MaxBlobs == 2
MaxContainers == 2
MaxFqdns == 2

LockNames == 1..MaxLocks
TriggerNames == 1..MaxTriggers
\* the first two domains of build.py's ordered_domains
Domains == <<"Sales", "Finance">>
DomainIds == 1..Len(Domains)
NewStartTimes == {1, 2}

VARIABLES
    \* cloud state: the locks of the resource group and the triggers of the
    \* factory being worked on, and the state in which the driver finds every
    \* domain's resource group and factory
    rgLocks, triggers, domainCfg,
    \* cloud state: the stored Snowflake linked service, the Batch pools and the
    \* Key Vaults
    linkedService, pools, vaults,
    \* control
    pc, ret, exc, call, raised, dom,
    \* AzureResourceLock fields and manage_adf_triggers locals
    lock_objs, locks, deleted, tlist, k,
    \* reset_tumbling_with_start_time locals
    original_state, trigger_obj,
    \* scale_batch_pools and sync_key_vaults locals, and what the last call
    \* returned
    current_nodes, reads, moved, secrets, result,
    \* history
    locksBefore, pre, log, domExc, resetExc, recreateCalled, failed, warned,
    \* AzureAuthentication: the clock, the cached token and its expiry, the
    \* tokens the credential has issued, and each caller's position and locals
    now, token, token_expiry, issued, tpc, tlocal,
    \* AzureStorageCopy: the blobs of the source container, the target
    \* container, and copy_container's locals
    sourceSTG, targetSTG, blobs, copied_count,
    \* generate_json: the document being built
    json_data,
    \* ADFPipeline: the pipeline run in the factory, self.run_id, and
    \* run_and_fetch's status
    pipeline_run, run_id, status,
    \* run_storage_sync: sync_results and the position in the containers list
    sync_results, container_i,
    \* ADFManagedPrivateEndpoint: the two managed private endpoints of the
    \* factory, manage_private_endpoints' locals, and the mode of the last
    \* finished run when it was live and without error
    mpe, east_fqdns, west_fqdns, prev_mode

\* what the trigger driver and ADFTrigger never touch
authVars == <<now, token, token_expiry, issued, tpc, tlocal>>
storageVars == <<sourceSTG, targetSTG, blobs, copied_count>>
pipelineVars == <<pipeline_run, run_id, status>>
syncVars == <<sync_results, container_i>>
mpeVars == <<mpe, east_fqdns, west_fqdns, prev_mode>>
apart == <<authVars, storageVars, json_data, pipelineVars, syncVars, mpeVars>>
\* the pool node count read by scale_batch_pools, the pool.get calls made, and
\* the node count the last finished run moved in a live pass without error
batchLocals == <<current_nodes, reads, moved>>
elsewhere == <<domainCfg, linkedService, pools, vaults, batchLocals, secrets,
               result, failed, warned, apart>>
cloudVars == <<rgLocks, triggers, elsewhere>>
lockLocals == <<lock_objs, locks, deleted>>
resetLocals == <<original_state, trigger_obj>>
histDom == <<locksBefore, domExc, resetExc, recreateCalled>>
\* what the linked-service, Batch and Key Vault code never touches
triggerSide == <<rgLocks, triggers, lockLocals, tlist, resetLocals, locksBefore,
                 resetExc, recreateCalled, apart>>
vars == <<rgLocks, triggers, domainCfg, linkedService, pools, vaults, pc, ret,
          exc, call, raised, dom, lock_objs, locks, deleted, tlist, k,
          original_state, trigger_obj, current_nodes, reads, moved, secrets,
          result,
          locksBefore, pre, log, domExc, resetExc, recreateCalled, failed,
          warned, now, token, token_expiry, issued, tpc, tlocal, sourceSTG,
          targetSTG, blobs, copied_count, json_data, pipeline_run, run_id,
          status, sync_results, container_i, mpe, east_fqdns, west_fqdns,
          prev_mode>>

\* ----------------------------------------------------------------- helpers
RECURSIVE SortedSeq(_)
SortedSeq(S) ==
    IF S = {} THEN <<>>
    ELSE LET m == CHOOSE x \in S : \A y \in S : x <= y
         IN <<m>> \o SortedSeq(S \ {m})

\* ------------------------------------------------------------------- locks
AbsentLock == [exists |-> FALSE, level |-> "none", notes |-> "none"]
\* the lock a resource group may carry under name n
LockOf(n) ==
    IF n % 2 = 1
    THEN [exists |-> TRUE, level |-> "CanNotDelete", notes |-> "None"]
    ELSE [exists |-> TRUE, level |-> "ReadOnly", notes |-> "dr"]
LockStates == {lk \in [LockNames -> {AbsentLock} \cup {LockOf(n) : n \in LockNames}] :
                 \A n \in LockNames : lk[n].exists => lk[n] = LockOf(n)}
NoLocks == [n \in LockNames |-> AbsentLock]

\* AzureResourceLock.get_locks: the locks of the group, as a list
get_locks(lk) ==
    LET names == SortedSeq({n \in LockNames : lk[n].exists})
    IN [i \in 1..Len(names) |->
            [name |-> names[i], level |-> lk[names[i]].level,
             notes |-> lk[names[i]].notes]]

\* management_locks.delete_at_resource_group_level(rg, lock.name)
delete_lock(lk, lock) == [lk EXCEPT ![lock.name] = AbsentLock]

\* a create call that sends no notes
create_lock_without_notes(lk, lock) ==
    [lk EXCEPT ![lock.name] =
        [exists |-> TRUE, level |-> lock.level, notes |-> "None"]]

\* management_locks.create_or_update_at_resource_group_level(rg, lock.name,
\*     {"level": lock.level, "notes": lock.notes})
create_or_update_lock(lk, lock) ==
    [lk EXCEPT ![lock.name] =
        [exists |-> TRUE, level |-> lock.level, notes |-> lock.notes]]

\* ---------------------------------------------------------------- triggers
VALID_TRIGGER_TYPES == {"TumblingWindowTrigger", "ScheduleTrigger"}
AbsentTrigger ==
    [exists |-> FALSE, type |-> "none", runtime_state |-> "none", start_time |-> 0]
InitialTriggers ==
    {[exists |-> TRUE, type |-> ty, runtime_state |-> st, start_time |-> 0] :
        ty \in VALID_TRIGGER_TYPES, st \in {"Started", "Stopped"}}
    \cup {[exists |-> TRUE, type |-> "BlobEventsTrigger",
            runtime_state |-> "Started", start_time |-> 0]}
TriggerStates == [TriggerNames -> InitialTriggers \cup {AbsentTrigger}]

\* a listing that leaves the tumbling window triggers out
list_schedule_triggers(trg, trigger_type) ==
    SortedSeq({n \in TriggerNames :
        trg[n].exists /\ trg[n].type = "ScheduleTrigger"})

\* a listing without the default filter
list_every_trigger(trg, trigger_type) ==
    SortedSeq({n \in TriggerNames :
        /\ trg[n].exists
        /\ trigger_type \in {"None", ""} \/ trg[n].type = trigger_type})

\* ADFTrigger.list_triggers(trigger_type): names of the listed triggers;
\* trigger_type "None" is the default filter (schedule and tumbling), and
\* `if trigger_type:` takes the empty string for no filter too
list_triggers(trg, trigger_type) ==
    SortedSeq({n \in TriggerNames :
        /\ trg[n].exists
        /\ IF trigger_type \in {"None", ""}
           THEN trg[n].type \in VALID_TRIGGER_TYPES
           ELSE trg[n].type = trigger_type})

\* the filters list_triggers is called with
TypeFilters == VALID_TRIGGER_TYPES \cup {"None", "", "BlobEventsTrigger"}
\* if trigger_type and trigger_type not in self.VALID_TRIGGER_TYPES: raise
InvalidType(trigger_type) ==
    trigger_type \notin {"None", ""} /\ trigger_type \notin VALID_TRIGGER_TYPES

TargetState(action) == IF action = "start" THEN "Started" ELSE "Stopped"

\* a start that does not look at the runtime state
NeedsStartAlways(action, runtime_state) == action = "start"
\* manage_trigger's two conditions
NeedsStop(action, runtime_state) == action = "stop" /\ runtime_state = "Started"
NeedsStart(action, runtime_state) == action = "start" /\ runtime_state = "Stopped"

Fails == {"none", "get", "begin"}

\* ADFTrigger.manage_trigger(trigger_name, action) as one call: the factory
\* after it, the stop/start calls it issued, and whether it raised.  fail names
\* the SDK call that raises, if any.
manage_trigger(trg, name, action, fail) ==
    IF fail = "get" \/ ~trg[name].exists
    THEN [triggers |-> trg, issued |-> <<>>, raised |-> TRUE]
    ELSE IF NeedsStop(action, trg[name].runtime_state)
    THEN IF fail = "begin"
         THEN [triggers |-> trg, issued |-> <<<<"begin_stop", name>>>>,
               raised |-> TRUE]
         ELSE [triggers |-> [trg EXCEPT ![name].runtime_state = "Stopped"],
               issued |-> <<<<"begin_stop", name>>>>, raised |-> FALSE]
    ELSE IF NeedsStart(action, trg[name].runtime_state)
    THEN IF fail = "begin"
         THEN [triggers |-> trg, issued |-> <<<<"begin_start", name>>>>,
               raised |-> TRUE]
         ELSE [triggers |-> [trg EXCEPT ![name].runtime_state = "Started"],
               issued |-> <<<<"begin_start", name>>>>, raised |-> FALSE]
    ELSE [triggers |-> trg, issued |-> <<>>, raised |-> FALSE]

NoCall == [op |-> "none", name |-> 0, action |-> "none", dry_run |-> FALSE,
           start_time |-> 0, old_fqdn |-> <<>>, new_fqdn |-> <<>>,
           pool |-> "none", target_nodes |-> 0, mode |-> "none",
           overwrite |-> TRUE, storage |-> FALSE, snowflake |-> FALSE,
           azure |-> TRUE, domain |-> "none", environment |-> "none",
           customer_json |-> <<>>, activity_name |-> <<>>,
           trigger_type |-> "None", containers |-> <<>>]
\* a call that returned None, or has not returned
NoResult == [kind |-> "None"]
\* a container that does not exist
AbsentContainer == [exists |-> FALSE, blobs |-> {}]
\* a managed private endpoint that does not exist
AbsentEndpoint == [exists |-> FALSE, fqdns |-> <<>>]
NoEndpoints == [snowflake_east |-> AbsentEndpoint,
                snowflake_west |-> AbsentEndpoint]
\* the containers run_storage_sync is asked for: its two defaults
ContainerNames == {"batch-pool", "scriptfiles"}
\* sync_results = {}
NoStatuses == [c \in ContainerNames |-> "none"]
NoTriggers == [n \in TriggerNames |-> AbsentTrigger]

\* ----------------------------------------------------------- linked services
\* no linked service stored
NoService == [type |-> "none", value |-> <<>>]

\* strings are sequences of characters
HostChars == {"a", "b"}
Hosts == UNION {[1..n -> HostChars] : n \in 1..MaxHostLen}
Schemes == {<<>>, <<":", "/", "/">>, <<"/", "/">>}
DomainSuffixes == {<<>>, <<".", "c">>}
Parameters == {<<>>, <<";", ":", "/", "/", "a", ".", "c">>}
\* the connectionString or accountIdentifier a linked service may hold
StoredValues ==
    {p \o h \o s \o q :
        p \in Schemes, h \in Hosts, s \in DomainSuffixes, q \in Parameters}
LinkedServices == [type : {"Snowflake", "SnowflakeV2"}, value : StoredValues]

\* (?<=://)old(?=\.) matches in s at position i
MatchAt(old, s, i) ==
    /\ i > 3
    /\ i + Len(old) <= Len(s)
    /\ SubSeq(s, i - 3, i - 1) = <<":", "/", "/">>
    /\ SubSeq(s, i, i + Len(old) - 1) = old
    /\ s[i + Len(old)] = "."

RECURSIVE SubFrom(_, _, _, _)
SubFrom(old, new, s, i) ==
    IF i > Len(s) THEN <<>>
    ELSE IF MatchAt(old, s, i)
    THEN new \o SubFrom(old, new, s, i + Len(old))
    ELSE <<s[i]>> \o SubFrom(old, new, s, i + 1)

\* re.sub(rf"(?<=://){re.escape(old_fqdn)}(?=\.)", new_fqdn, s)
re_sub(old_fqdn, new_fqdn, s) == SubFrom(old_fqdn, new_fqdn, s, 1)

\* update_snowflake_account_name of the older script: the linked service it
\* returns
update_snowflake_account_name(linked_service, old_fqdn, new_fqdn) ==
    [linked_service EXCEPT !.value = re_sub(old_fqdn, new_fqdn, @)]

LSFails == {"none", "get", "create_or_update"}

\* ADFLinkedServices.update_linked_service_sf_account as one call: the stored
\* service after it, the create_or_update it issued, whether the warning was
\* printed, whether it raised, and what it returned
update_linked_service_sf_account(svc, old_fqdn, new_fqdn, dry_run, fail) ==
    LET new_value == re_sub(old_fqdn, new_fqdn, svc.value)
        nothing == [service |-> svc, issued |-> <<>>, warned |-> FALSE,
                    raised |-> FALSE, result |-> NoResult]
        sent == [svc EXCEPT !.value = IF svc.type = "Snowflake"
                                        THEN new_value ELSE new_fqdn]
    IN  IF fail = "get" THEN [nothing EXCEPT !.raised = TRUE]
        ELSE IF svc.type = "Snowflake" /\ new_value = svc.value
        THEN [nothing EXCEPT !.warned = TRUE]
        ELSE IF svc.type # "Snowflake" /\ new_fqdn = svc.value
        THEN [nothing EXCEPT !.warned = TRUE]
        ELSE IF dry_run THEN nothing
        ELSE IF fail = "create_or_update"
        THEN [nothing EXCEPT !.issued = <<<<"create_or_update", sent.value>>>>,
                             !.raised = TRUE]
        ELSE [service |-> sent,
              issued |-> <<<<"create_or_update", sent.value>>>>,
              warned |-> FALSE, raised |-> FALSE,
              result |-> [kind |-> "linked_service", value |-> sent.value]]

\* --------------------------------------------------------------- Batch pools
NoPools == <<>>
AutoScale == [fixedScale |-> FALSE, targetDedicatedNodes |-> 0]
FixedScale(n) == [fixedScale |-> TRUE, targetDedicatedNodes |-> n]
PoolConfigs == {AutoScale} \cup {FixedScale(n) : n \in 0..MaxNodes}
PoolStates == [scaleDown : PoolConfigs, scaleUp : PoolConfigs]

\* pool_config.get("scaleSettings", {}).get("fixedScale", {})
\*     .get("targetDedicatedNodes", 0)
targetDedicatedNodes(pool_config) ==
    IF pool_config.fixedScale THEN pool_config.targetDedicatedNodes ELSE 0

\* a comparison that never finds the pool at its target
NoChangeNever(current, target_nodes) == FALSE
\* a scale call that never lowers a pool's count
NoShrink(current, target_nodes) == current >= target_nodes
\* if current_nodes == target_nodes
NoChangeNeeded(current, target_nodes) == current = target_nodes

PoolFails == {"none", "get", "update"}

\* a check that lets every target through
NegativeAccepted(target_nodes) == FALSE
\* if target_nodes < 0: raise ValueError(...)
NegativeTarget(target_nodes) == target_nodes < 0

\* AzureBatchPool.scale_pool_nodes as one call: the pool after it, the update
\* it issued, whether it raised, the configuration it returned, and whether it
\* called get_pool_config
scale_pool_nodes(pool_config, target_nodes, dry_run, fail) ==
    LET nothing == [pool |-> pool_config, issued |-> <<>>, raised |-> FALSE,
                    result |-> NoResult, read |-> TRUE]
        new_config == FixedScale(target_nodes)
    IN  IF NegativeTarget(target_nodes)
        THEN [nothing EXCEPT !.raised = TRUE, !.read = FALSE]
        ELSE IF fail = "get" THEN [nothing EXCEPT !.raised = TRUE]
        ELSE IF NoChangeNeeded(targetDedicatedNodes(pool_config), target_nodes)
        THEN [nothing EXCEPT !.result = [kind |-> "pool", config |-> pool_config]]
        ELSE IF dry_run
        THEN [nothing EXCEPT !.result = [kind |-> "pool", config |-> new_config]]
        ELSE IF fail = "update"
        THEN [nothing EXCEPT !.issued = <<<<"update", target_nodes>>>>,
                             !.raised = TRUE]
        ELSE [pool |-> new_config, issued |-> <<<<"update", target_nodes>>>>,
              raised |-> FALSE,
              result |-> [kind |-> "pool", config |-> new_config],
              read |-> TRUE]

\* a scale-up target that copies the count as read
SameCount(nodes) == nodes
\* target_nodes = 1 if current_nodes == 0 else current_nodes
ScaleUpTarget(nodes) == IF nodes = 0 THEN 1 ELSE nodes

\* ---------------------------------------------------------------- Key Vaults
NoVaults == <<>>
NoSecret == 0
SecretNames == 1..MaxSecrets
SecretValues == {1, 2}
VaultContents == [SecretNames -> {NoSecret} \cup SecretValues]
VaultStates == [source : VaultContents, target : VaultContents]

\* AzureKeyVault.list_secrets: the names of the vault's secrets
list_secrets(vault) == SortedSeq({n \in SecretNames : vault[n] # NoSecret})

\* a comparison that skips whatever the target holds
SkipIfFound(found, source_value, target_value) == found
\* target_value = target_kv.get_secret(name) returned and
\* source_value == target_value
ValuesIdentical(found, source_value, target_value) ==
    found /\ source_value = target_value

SecretFails == {"none", "source_get", "target_get", "set"}

\* the body of sync_key_vaults' loop for one secret: the vaults after it, the
\* set_secret it issued, and the calls that raised although the secret is there
sync_secret(v, secret_name, dry_run, fail) ==
    LET source_value == v.source[secret_name]
        found == v.target[secret_name] # NoSecret /\ fail # "target_get"
        read_failed == IF fail = "target_get" /\ v.target[secret_name] # NoSecret
                       THEN {<<"get_secret", "target", secret_name>>} ELSE {}
        nothing == [vaults |-> v, issued |-> <<>>, failed |-> read_failed]
        set == <<"set_secret", secret_name, source_value>>
    IN  IF fail = "source_get"
        THEN [nothing EXCEPT !.failed = {<<"get_secret", "source", secret_name>>}]
        ELSE IF ValuesIdentical(found, source_value, v.target[secret_name])
        THEN nothing
        ELSE IF dry_run THEN nothing
        ELSE IF fail = "set"
        THEN [nothing EXCEPT !.issued = <<set>>,
                             !.failed = read_failed \cup {set}]
        ELSE [vaults |-> [v EXCEPT !.target[secret_name] = source_value],
              issued |-> <<set>>, failed |-> read_failed]

\* the state in which a driver finds every domain's resources
DomainConfig ==
    [locks |-> rgLocks, triggers |-> triggers, linkedService |-> linkedService,
     pools |-> pools, vaults |-> vaults]

\* ------------------------------------------------------- AzureAuthentication
\* timedelta(minutes=5); the clock counts minutes
Margin == 5
\* how long the credential's tokens live
Lifetimes == {4, 6, 8}
Threads == 1..MaxThreads
\* None
None == <<>>
Some(x) == <<x>>
NoLocals == [now |-> 0, asked |-> FALSE, raised |-> FALSE,
             token_response |-> None, before |-> None, returned |-> None]

\* self.token = None; self.token_expiry = None
AuthInit ==
    /\ now = 0 /\ token = None /\ token_expiry = None /\ issued = <<>>
    /\ tpc = [t \in Threads |-> "idle"]
    /\ tlocal = [t \in Threads |-> NoLocals]

\* a test that lets the token live through the minute it expires in
ExpiredAfter(at, expiry) == at > expiry[1]
\* now >= self.token_expiry
Expired(at, expiry) == at >= expiry[1]

\* self.token is None or self.token_expiry is None or (... now >= ...)
NeedsToken(tok, expiry, at) ==
    tok = None \/ expiry = None \/ (expiry # None /\ Expired(at, expiry))

\* datetime.fromtimestamp(expires_on) - timedelta(minutes=5)
ExpiryOf(token_response) == token_response.expires_on - Margin

\* an exception leaving the running method: control goes to the handler exc,
\* the caller's except clause; "returned" and "crashed" mean that it leaves the
\* called method, or the script, for good
Raise ==
    /\ pc' = exc
    /\ raised' = (IF exc \in {"returned", "crashed"} THEN TRUE ELSE raised)

\* the state every run starts from, but for the cloud
InitCalls ==
    /\ pc = "idle" /\ ret = "idle" /\ exc = "idle"
    /\ call = NoCall /\ raised = FALSE /\ dom = 1
    /\ lock_objs = <<>> /\ locks = <<>> /\ deleted = FALSE
    /\ tlist = <<>> /\ k = 0
    /\ original_state = "none" /\ trigger_obj = AbsentTrigger
    /\ current_nodes = 0 /\ reads = <<>> /\ moved = 0
    /\ secrets = <<>> /\ result = NoResult
    /\ failed = {} /\ warned = FALSE
    /\ AuthInit
    /\ locksBefore = rgLocks /\ pre = <<>> /\ log = <<>>
    /\ domExc = FALSE /\ resetExc = FALSE /\ recreateCalled = FALSE
    /\ blobs = <<>> /\ copied_count = 0 /\ json_data = <<>>
    /\ pipeline_run = [status |-> "none", activity |-> "none"]
    /\ run_id = <<>> /\ status = "none"
    /\ sync_results = NoStatuses /\ container_i = 0
    /\ east_fqdns = <<>> /\ west_fqdns = <<>> /\ prev_mode = "none"

\* a run that has no storage account to work on
InitControl ==
    /\ InitCalls
    /\ sourceSTG = <<>> /\ targetSTG = AbsentContainer
    /\ mpe = NoEndpoints

\* the trigger driver: the domains' resource groups and factories are
\* configured alike
Init ==
    /\ rgLocks \in LockStates
    /\ triggers \in TriggerStates
    /\ linkedService = NoService /\ pools = NoPools /\ vaults = NoVaults
    /\ domainCfg = DomainConfig
    /\ InitControl

\* ADFTrigger on one factory, without locks
InitTrigger ==
    /\ rgLocks = NoLocks
    /\ triggers \in TriggerStates
    /\ linkedService = NoService /\ pools = NoPools /\ vaults = NoVaults
    /\ domainCfg = DomainConfig
    /\ InitControl

\* ------------------------------------------------ ADFTrigger, called directly
\* trigger_mgr.manage_trigger(name, action)
CallManageTrigger ==
    /\ pc = "idle"
    /\ \E n \in TriggerNames, a \in {"start", "stop"}, f \in Fails :
        LET r == manage_trigger(triggers, n, a, f) IN
        /\ call' = [NoCall EXCEPT !.op = "manage_trigger", !.name = n, !.action = a]
        /\ pre' = triggers
        /\ triggers' = r.triggers
        /\ log' = r.issued
        /\ raised' = r.raised
    /\ pc' = "returned"
    /\ UNCHANGED <<rgLocks, elsewhere, ret, exc, dom, lockLocals, tlist, k, resetLocals,
                   histDom>>

\* trigger_mgr.list_triggers(trigger_type): the type check, list_by_factory
\* (which may raise), the filter
CallListTriggers ==
    /\ pc = "idle"
    /\ \E ty \in TypeFilters, fail \in BOOLEAN :
        /\ call' = [NoCall EXCEPT !.op = "list_triggers", !.trigger_type = ty]
        /\ IF InvalidType(ty)
           THEN raised' = TRUE /\ log' = <<>> /\ result' = NoResult
           ELSE /\ log' = <<<<"list_by_factory", 0>>>>
                /\ raised' = fail
                /\ result' = (IF fail THEN NoResult
                              ELSE [kind |-> "triggers",
                                    names |-> list_triggers(triggers, ty)])
    /\ pc' = "returned" /\ pre' = triggers
    /\ UNCHANGED <<rgLocks, triggers, domainCfg, linkedService, pools, vaults,
                   batchLocals, secrets, failed, warned, apart, ret, exc, dom,
                   lockLocals, tlist, k, resetLocals, histDom>>

\* trigger_mgr.manage_all_triggers(action)
CallManageAll ==
    /\ pc = "idle"
    /\ \E a \in {"start", "stop"} :
        call' = [NoCall EXCEPT !.op = "manage_all_triggers", !.action = a]
    /\ pc' = "m_list" /\ ret' = "returned" /\ exc' = "returned"
    /\ pre' = triggers /\ log' = <<>> /\ raised' = FALSE
    /\ UNCHANGED <<cloudVars, dom, lockLocals, tlist, k, resetLocals, histDom>>

\* trigger_mgr.reset_tumbling_with_start_time(name, new_start_time)
CallReset ==
    /\ pc = "idle"
    /\ \E n \in TriggerNames, t \in NewStartTimes :
        call' = [NoCall EXCEPT !.op = "reset", !.name = n, !.start_time = t]
    /\ pc' = "r_get" /\ ret' = "returned" /\ exc' = "returned"
    /\ pre' = triggers /\ log' = <<>> /\ raised' = FALSE
    /\ UNCHANGED <<cloudVars, dom, lockLocals, tlist, k, resetLocals, histDom>>

\* the caller goes on to its next call
Return ==
    /\ pc = "returned"
    /\ pc' = "idle" /\ ret' = "idle" /\ exc' = "idle"
    /\ call' = NoCall /\ raised' = FALSE
    /\ tlist' = <<>> /\ k' = 0
    /\ original_state' = "none" /\ trigger_obj' = AbsentTrigger
    /\ current_nodes' = 0 /\ reads' = <<>> /\ UNCHANGED moved
    /\ secrets' = <<>> /\ result' = NoResult
    /\ pre' = <<>> /\ log' = <<>>
    /\ dom' = 1 /\ domExc' = FALSE /\ failed' = {} /\ warned' = FALSE
    /\ UNCHANGED <<rgLocks, triggers, domainCfg, linkedService, pools, vaults,
                   lockLocals, locksBefore, resetExc, recreateCalled, authVars,
                   sourceSTG, targetSTG>>
    /\ blobs' = <<>> /\ copied_count' = 0 /\ json_data' = <<>>
    /\ status' = "none" /\ UNCHANGED <<pipeline_run, run_id>>
    /\ sync_results' = NoStatuses /\ container_i' = 0
    /\ east_fqdns' = <<>> /\ west_fqdns' = <<>> /\ UNCHANGED <<mpe, prev_mode>>

\* ------------------------------------------------------ manage_all_triggers
ManageAllList ==
    /\ pc = "m_list"
    /\ \/ /\ tlist' = list_triggers(triggers, "None")
          /\ k' = 1
          /\ pc' = "m_loop"
          /\ UNCHANGED raised
       \/ /\ Raise
          /\ UNCHANGED <<tlist, k>>
    /\ UNCHANGED <<cloudVars, ret, exc, call, dom, lockLocals, resetLocals,
                   histDom, pre, log>>

ManageAllStep ==
    /\ pc = "m_loop"
    /\ \/ /\ k > Len(tlist)
          /\ pc' = ret
          /\ UNCHANGED <<triggers, k, log, raised>>
       \/ /\ k <= Len(tlist)
          /\ \E f \in Fails :
              LET r == manage_trigger(triggers, tlist[k], call.action, f) IN
              /\ triggers' = r.triggers
              /\ log' = log \o r.issued
              /\ IF r.raised
                 THEN Raise /\ UNCHANGED k
                 ELSE k' = k + 1 /\ UNCHANGED <<pc, raised>>
    /\ UNCHANGED <<rgLocks, elsewhere, ret, exc, call, dom, lockLocals, tlist, resetLocals,
                   histDom, pre>>

\* ------------------------------------------- reset_tumbling_with_start_time
\* the trigger the reset works on: the called one, or the driver's loop item
ResetName == IF call.op = "reset" THEN call.name ELSE tlist[k - 1]

ResetGet ==
    /\ pc = "r_get"
    /\ \/ /\ triggers[ResetName].exists
          /\ triggers[ResetName].type = "TumblingWindowTrigger"
          /\ original_state' = triggers[ResetName].runtime_state
          /\ trigger_obj' = triggers[ResetName]
          /\ pc' = "r_stop"
          /\ UNCHANGED raised
       \/ /\ triggers[ResetName].exists
          /\ triggers[ResetName].type # "TumblingWindowTrigger"
          /\ Raise
          /\ UNCHANGED resetLocals
       \/ /\ Raise
          /\ UNCHANGED resetLocals
    /\ UNCHANGED <<cloudVars, ret, exc, call, dom, lockLocals, tlist, k, histDom,
                   pre, log>>

ResetStop ==
    /\ pc = "r_stop"
    /\ IF original_state = "Started"
       THEN \E f \in Fails :
              LET r == manage_trigger(triggers, ResetName, "stop", f) IN
              /\ triggers' = r.triggers
              /\ log' = log \o r.issued
              /\ IF r.raised THEN Raise ELSE pc' = "r_delete" /\ UNCHANGED raised
       ELSE pc' = "r_delete" /\ UNCHANGED <<triggers, log, raised>>
    /\ UNCHANGED <<rgLocks, elsewhere, ret, exc, call, dom, lockLocals, tlist, k, resetLocals,
                   histDom, pre>>

ResetDelete ==
    /\ pc = "r_delete"
    /\ \/ /\ triggers' = [triggers EXCEPT ![ResetName] = AbsentTrigger]
          /\ log' = Append(log, <<"delete", ResetName>>)
          /\ pc' = "r_create"
          /\ UNCHANGED raised
       \/ /\ Raise
          /\ UNCHANGED <<triggers, log>>
    /\ UNCHANGED <<rgLocks, elsewhere, ret, exc, call, dom, lockLocals, tlist, k, resetLocals,
                   histDom, pre>>

\* a recreate that sends the definition as it was read
RecreatedStale(obj, new_start_time) == [obj EXCEPT !.runtime_state = "Stopped"]
\* trigger_properties.start_time = new_start_time; create_or_update(...): the
\* factory creates the trigger stopped (runtime_state is read-only)
Recreated(obj, new_start_time) ==
    [obj EXCEPT !.start_time = new_start_time, !.runtime_state = "Stopped"]

\* a handler that puts the trigger back as it was read
ResetFailureRestores(trg, obj, name) == [trg EXCEPT ![name] = obj]
\* except Exception as e: print(...); raise -- the handler issues no call
ResetFailure(trg, obj, name) == trg

ResetCreate ==
    /\ pc = "r_create"
    /\ \/ /\ triggers' = [triggers EXCEPT
                ![ResetName] = Recreated(trigger_obj, call.start_time)]
          /\ log' = Append(log, <<"create_or_update", ResetName>>)
          /\ pc' = "r_start"
          /\ UNCHANGED raised
       \/ /\ Raise
          /\ triggers' = ResetFailure(triggers, trigger_obj, ResetName)
          /\ UNCHANGED log
    /\ UNCHANGED <<rgLocks, elsewhere, ret, exc, call, dom, lockLocals, tlist, k, resetLocals,
                   histDom, pre>>

ResetStart ==
    /\ pc = "r_start"
    /\ IF original_state = "Started"
       THEN \E f \in Fails :
              LET r == manage_trigger(triggers, ResetName, "start", f) IN
              /\ triggers' = r.triggers
              /\ log' = log \o r.issued
              /\ IF r.raised THEN Raise ELSE pc' = ret /\ UNCHANGED raised
       ELSE pc' = ret /\ UNCHANGED <<triggers, log, raised>>
    /\ UNCHANGED <<rgLocks, elsewhere, ret, exc, call, dom, lockLocals, tlist, k, resetLocals,
                   histDom, pre>>

\* --------------------------------------------------------- AzureResourceLock
\* release_locks
ReleaseLocks ==
    /\ pc = "release"
    /\ \/ /\ lock_objs = <<>>
          /\ pc' = ret
          /\ UNCHANGED <<rgLocks, log, k, deleted, raised>>
       \/ /\ k <= Len(lock_objs)
          /\ rgLocks' = delete_lock(rgLocks, lock_objs[k])
          /\ log' = Append(log, <<"delete_lock", lock_objs[k].name>>)
          /\ IF k = Len(lock_objs)
             THEN deleted' = TRUE /\ pc' = ret /\ UNCHANGED k
             ELSE k' = k + 1 /\ UNCHANGED <<deleted, pc>>
          /\ UNCHANGED raised
       \/ /\ k <= Len(lock_objs)
          /\ Raise
          /\ UNCHANGED <<rgLocks, log, k, deleted>>
    /\ UNCHANGED <<triggers, elsewhere, ret, exc, call, dom, lock_objs, locks, tlist,
                   resetLocals, histDom, pre>>

\* a recreate that does not look at the deleted flag
SkipsWhenEmpty(objs, del) == objs = <<>>
\* if not self.lock_objs: return; if not self.deleted: return
SkipsRecreation(objs, del) == objs = <<>> \/ ~del

\* recreate_locks
RecreateLocks ==
    /\ pc = "recreate"
    /\ \/ /\ SkipsRecreation(lock_objs, deleted)
          /\ pc' = ret
          /\ UNCHANGED <<rgLocks, log, k, raised>>
       \/ /\ ~SkipsRecreation(lock_objs, deleted)
          /\ k <= Len(lock_objs)
          /\ rgLocks' = create_or_update_lock(rgLocks, lock_objs[k])
          /\ log' = Append(log, <<"create_lock", lock_objs[k].name>>)
          /\ IF k = Len(lock_objs)
             THEN pc' = ret /\ UNCHANGED k
             ELSE k' = k + 1 /\ UNCHANGED pc
          /\ UNCHANGED raised
       \/ /\ ~SkipsRecreation(lock_objs, deleted)
          /\ k <= Len(lock_objs)
          /\ Raise
          /\ UNCHANGED <<rgLocks, log, k>>
    /\ UNCHANGED <<triggers, elsewhere, ret, exc, call, dom, lockLocals, tlist, resetLocals,
                   histDom, pre>>

\* ------------------------------------------------------ manage_adf_triggers
\* python DR_start_stop_adf_trigger.py --action a --dry-run dry [--start-time t]
CallDriver ==
    /\ pc = "idle"
    /\ \E a \in {"start", "stop"}, dry \in BOOLEAN, t \in NewStartTimes :
        call' = [NoCall EXCEPT !.op = "manage_adf_triggers", !.action = a,
                               !.dry_run = dry, !.start_time = t]
    /\ pc' = "d_begin" /\ dom' = 1
    /\ locksBefore' = rgLocks /\ pre' = triggers /\ log' = <<>>
    /\ UNCHANGED <<cloudVars, ret, exc, raised, lockLocals, tlist, k, resetLocals,
                   domExc, resetExc, recreateCalled>>

\* lock_mgr = AzureResourceLock(...); locks = lock_mgr.get_locks();
\* if locks: lock_mgr.release_locks()
DrvBegin ==
    /\ pc = "d_begin"
    /\ \/ /\ call.dry_run
          /\ pc' = "d_client"
          /\ UNCHANGED <<lockLocals, ret, exc, k>>
       \/ /\ ~call.dry_run
          /\ lock_objs' = get_locks(rgLocks)
          /\ locks' = get_locks(rgLocks)
          /\ deleted' = FALSE
          /\ pc' = (IF get_locks(rgLocks) # <<>> THEN "release" ELSE "d_client")
          /\ ret' = "d_client" /\ exc' = "d_except" /\ k' = 1
       \/ /\ ~call.dry_run
          /\ pc' = "d_except"
          /\ UNCHANGED <<lockLocals, ret, exc, k>>
    /\ UNCHANGED <<cloudVars, call, raised, dom, tlist, resetLocals, histDom,
                   pre, log>>

\* trigger_mgr = ADFTrigger(...)
DrvClient ==
    /\ pc = "d_client"
    /\ pc' \in {"d_list", "d_except"}
    /\ UNCHANGED <<cloudVars, ret, exc, call, raised, dom, lockLocals, tlist, k,
                   resetLocals, histDom, pre, log>>

\* a driver that goes on to manage the triggers in a dry run too
AfterListLive(ts, dry_run) == IF ts = <<>> THEN "d_next" ELSE "m_list"
\* where the driver goes after listing the triggers
AfterList(ts, dry_run) ==
    IF ts = <<>> THEN "d_next"
    ELSE IF dry_run THEN "d_next"
    ELSE "m_list"

\* triggers = trigger_mgr.list_triggers(); the two `continue`s;
\* trigger_mgr.manage_all_triggers(action)
DrvList ==
    /\ pc = "d_list"
    /\ \/ /\ pc' = AfterList(list_triggers(triggers, "None"), call.dry_run)
          /\ ret' = "d_managed" /\ exc' = "d_except"
       \/ /\ pc' = "d_except"
          /\ UNCHANGED <<ret, exc>>
    /\ UNCHANGED <<cloudVars, call, raised, dom, lockLocals, tlist, k,
                   resetLocals, histDom, pre, log>>

\* if action == "start": tumbling_triggers = list_triggers("TumblingWindowTrigger")
DrvManaged ==
    /\ pc = "d_managed"
    /\ \/ /\ call.action = "start"
          /\ tlist' = list_triggers(triggers, "TumblingWindowTrigger")
          /\ k' = 1
          /\ pc' = "d_reset"
       \/ /\ call.action = "start"
          /\ pc' = "d_except"
          /\ UNCHANGED <<tlist, k>>
       \/ /\ call.action # "start"
          /\ pc' = "d_verify"
          /\ UNCHANGED <<tlist, k>>
    /\ UNCHANGED <<cloudVars, ret, exc, call, raised, dom, lockLocals,
                   resetLocals, histDom, pre, log>>

\* for trigger in tumbling_triggers: try: reset_tumbling_with_start_time(...)
\* except Exception: print(...)
DrvReset ==
    /\ pc = "d_reset"
    /\ \/ /\ k <= Len(tlist)
          /\ k' = k + 1
          /\ pc' = "r_get" /\ ret' = "d_reset" /\ exc' = "d_reset_except"
       \/ /\ k > Len(tlist)
          /\ pc' = "d_verify"
          /\ UNCHANGED <<k, ret, exc>>
    /\ UNCHANGED <<cloudVars, call, raised, dom, lockLocals, tlist, resetLocals,
                   histDom, pre, log>>

\* except Exception as e: print(f"Error resetting tumbling trigger ...")
DrvResetExcept ==
    /\ pc = "d_reset_except"
    /\ resetExc' = TRUE
    /\ pc' = "d_reset"
    /\ UNCHANGED <<cloudVars, ret, exc, call, raised, dom, lockLocals, tlist, k,
                   resetLocals, locksBefore, domExc, recreateCalled, pre, log>>

\* the verification loop, then: if not dry_run and locks: recreate_locks()
DrvVerify ==
    /\ pc = "d_verify"
    /\ \/ /\ pc' = (IF ~call.dry_run /\ locks # <<>> THEN "recreate" ELSE "d_next")
          /\ recreateCalled' = (recreateCalled \/ (~call.dry_run /\ locks # <<>>))
          /\ ret' = "d_next" /\ exc' = "d_except" /\ k' = 1
       \/ /\ pc' = "d_except"
          /\ UNCHANGED <<ret, exc, k, recreateCalled>>
    /\ UNCHANGED <<cloudVars, call, raised, dom, lockLocals, tlist, resetLocals,
                   locksBefore, domExc, resetExc, pre, log>>

\* a handler that only logs
HandlerSkips(dry_run, lks) == FALSE
\* the handler's condition: if not dry_run and locks
HandlerRecreates(dry_run, lks) == ~dry_run /\ lks # <<>>

\* except Exception as e: ...; lock_mgr.recreate_locks(); continue
DrvExcept ==
    /\ pc = "d_except"
    /\ domExc' = TRUE
    /\ IF HandlerRecreates(call.dry_run, locks)
       THEN /\ pc' = "recreate" /\ k' = 1
            /\ ret' = "d_next" /\ exc' = "crashed"
            /\ recreateCalled' = TRUE
       ELSE /\ pc' = "d_next"
            /\ UNCHANGED <<k, ret, exc, recreateCalled>>
    /\ UNCHANGED <<cloudVars, call, raised, dom, lockLocals, tlist, resetLocals,
                   locksBefore, resetExc, pre, log>>

\* for config in trigger_configs: the next domain, or the end of the run
DrvNext ==
    /\ pc = "d_next"
    /\ \/ /\ dom < Len(Domains)
          /\ dom' = dom + 1
          /\ pc' = "d_begin"
          /\ lock_objs' = <<>> /\ locks' = <<>> /\ deleted' = FALSE
          /\ tlist' = <<>> /\ k' = 0
          /\ original_state' = "none" /\ trigger_obj' = AbsentTrigger
          /\ rgLocks' = domainCfg.locks /\ triggers' = domainCfg.triggers
          /\ locksBefore' = domainCfg.locks /\ pre' = domainCfg.triggers
          /\ log' = <<>>
          /\ domExc' = FALSE /\ resetExc' = FALSE /\ recreateCalled' = FALSE
       \/ /\ dom = Len(Domains)
          /\ pc' = "returned"
          /\ UNCHANGED <<rgLocks, triggers, dom, lockLocals, tlist, k, resetLocals,
                         histDom, pre, log>>
    /\ UNCHANGED <<elsewhere, ret, exc, call, raised>>


Next ==
    \/ CallDriver \/ DrvBegin \/ DrvClient \/ DrvList \/ DrvManaged \/ DrvReset
    \/ DrvResetExcept \/ DrvVerify \/ DrvExcept \/ DrvNext
    \/ ReleaseLocks \/ RecreateLocks
    \/ ManageAllList \/ ManageAllStep
    \/ ResetGet \/ ResetStop \/ ResetDelete \/ ResetCreate \/ ResetStart

Spec == Init /\ [][Next]_vars

NextTrigger ==
    \/ CallManageTrigger \/ CallManageAll \/ CallReset \/ Return
    \/ CallListTriggers
    \/ ManageAllList \/ ManageAllStep
    \/ ResetGet \/ ResetStop \/ ResetDelete \/ ResetCreate \/ ResetStart

SpecTrigger == InitTrigger /\ [][NextTrigger]_vars

\* the factory of a locked resource group, worked on by the driver and by
\* direct calls of ADFTrigger
NextFactory == Next \/ NextTrigger

SpecFactory == Init /\ [][NextFactory]_vars

\* ------------------------------- linked services: the FQDN rewrite, called directly
InitLS ==
    /\ rgLocks = NoLocks /\ triggers = NoTriggers
    /\ linkedService \in LinkedServices
    /\ pools = NoPools /\ vaults = NoVaults
    /\ domainCfg = DomainConfig
    /\ InitControl

\* ls_mgr.update_linked_service_sf_account(name, old_fqdn, new_fqdn, dry_run)
CallUpdateLinkedService ==
    /\ pc = "idle"
    /\ \E old \in Hosts, new \in Hosts, dry \in BOOLEAN, f \in LSFails :
        LET r == update_linked_service_sf_account(linkedService, old, new, dry, f)
        IN  /\ call' = [NoCall EXCEPT !.op = "update_linked_service_sf_account",
                                      !.old_fqdn = old, !.new_fqdn = new,
                                      !.dry_run = dry]
            /\ linkedService' = r.service
            /\ log' = r.issued
            /\ warned' = r.warned
            /\ raised' = r.raised
            /\ result' = r.result
    /\ pre' = linkedService
    /\ pc' = "returned"
    /\ UNCHANGED <<triggerSide, domainCfg, pools, vaults, ret, exc, dom, k,
                   batchLocals, secrets, domExc, failed>>

\* updated_service = update_snowflake_account_name(service, old_fqdn, new_fqdn)
CallUpdateAccountName ==
    /\ pc = "idle"
    /\ \E old \in Hosts, new \in Hosts :
        /\ call' = [NoCall EXCEPT !.op = "update_snowflake_account_name",
                                  !.old_fqdn = old, !.new_fqdn = new]
        /\ result' = [kind |-> "linked_service",
                      value |-> update_snowflake_account_name(
                                    linkedService, old, new).value]
    /\ pre' = linkedService
    /\ pc' = "returned"
    /\ UNCHANGED <<triggerSide, domainCfg, linkedService, pools, vaults, ret,
                   exc, raised, dom, k, batchLocals, secrets, log, domExc,
                   failed, warned>>

NextLS == CallUpdateLinkedService \/ CallUpdateAccountName \/ Return

SpecLS == InitLS /\ [][NextLS]_vars

\* ----------------------------------------------------------- scale_batch_pools
InitBatch ==
    /\ rgLocks = NoLocks /\ triggers = NoTriggers
    /\ linkedService = NoService
    /\ pools \in PoolStates
    /\ vaults = NoVaults
    /\ domainCfg = DomainConfig
    /\ InitControl

\* pool.scale_pool_nodes(target_nodes, dry_run), called directly
CallScalePool ==
    /\ pc = "idle"
    /\ \E p \in {"scaleDown", "scaleUp"}, t \in -1..MaxNodes, dry \in BOOLEAN,
          f \in PoolFails :
        LET r == scale_pool_nodes(pools[p], t, dry, f)
        IN  /\ call' = [NoCall EXCEPT !.op = "scale_pool_nodes", !.pool = p,
                                      !.target_nodes = t, !.dry_run = dry]
            /\ pools' = [pools EXCEPT ![p] = r.pool]
            /\ log' = r.issued
            /\ reads' = (IF r.read THEN <<p>> ELSE <<>>)
            /\ raised' = r.raised
            /\ result' = r.result
    /\ pre' = pools /\ moved' = 0
    /\ pc' = "returned"
    /\ UNCHANGED <<triggerSide, domainCfg, linkedService, vaults, ret, exc, dom,
                   k, current_nodes, secrets, domExc, failed, warned>>

\* python DR_scale_batch.py --dry-run dry
CallScaleBatch ==
    /\ pc = "idle"
    /\ \E dry \in BOOLEAN :
        call' = [NoCall EXCEPT !.op = "scale_batch_pools", !.dry_run = dry]
    /\ pc' = "b_clients" /\ dom' = 1
    /\ pre' = pools /\ log' = <<>> /\ reads' = <<>>
    /\ domainCfg' = [domainCfg EXCEPT !.pools = pools]
    /\ UNCHANGED <<triggerSide, linkedService, pools, vaults, ret, exc, raised,
                   k, current_nodes, moved, secrets, result, domExc, failed,
                   warned>>

\* scale_down_pool = AzureBatchPool(...); scale_up_pool = AzureBatchPool(...)
BatchClients ==
    /\ pc = "b_clients"
    /\ pc' \in {"b_read", "b_except"}
    /\ UNCHANGED <<triggerSide, elsewhere, ret, exc, call, raised, dom, k, pre,
                   log, domExc>>

\* scale_down_config = scale_down_pool.get_pool_config(); current_nodes = ...
BatchRead ==
    /\ pc = "b_read"
    /\ reads' = Append(reads, "scaleDown")
    /\ \/ /\ current_nodes' = targetDedicatedNodes(pools.scaleDown)
          /\ pc' = "b_down"
          /\ UNCHANGED failed
       \/ /\ pc' = "b_except"
          /\ failed' = failed \cup {<<"scaleDown", "get_pool_config">>}
          /\ UNCHANGED current_nodes
    /\ UNCHANGED <<triggerSide, domainCfg, linkedService, pools, vaults, ret,
                   exc, call, raised, dom, k, secrets, result, pre, log, domExc,
                   warned, moved>>

\* a run that scales the other pool up whatever the scale-down did
ThenScaleUp(down_raised) == "b_up"
\* an exception of the scale-down call leaves the try block for its handler
AfterScaleDown(down_raised) == IF down_raised THEN "b_except" ELSE "b_up"

\* scale_down_pool.scale_pool_nodes(target_nodes=0, dry_run=dry_run)
BatchDown ==
    /\ pc = "b_down"
    /\ \E f \in PoolFails :
        LET r == scale_pool_nodes(pools.scaleDown, 0, call.dry_run, f)
        IN  /\ pools' = [pools EXCEPT !.scaleDown = r.pool]
            /\ log' = log \o [i \in 1..Len(r.issued) |-> <<"scaleDown">> \o r.issued[i]]
            /\ reads' = (IF r.read THEN Append(reads, "scaleDown") ELSE reads)
            /\ result' = r.result
            /\ failed' = (IF r.raised
                          THEN failed \cup {<<"scaleDown", "scale_pool_nodes">>}
                          ELSE failed)
            /\ pc' = AfterScaleDown(r.raised)
    /\ UNCHANGED <<triggerSide, domainCfg, linkedService, vaults, ret, exc, call,
                   raised, dom, k, current_nodes, moved, secrets, pre, domExc,
                   warned>>

\* scale_up_pool.scale_pool_nodes(target_nodes=target_nodes, dry_run=dry_run)
BatchUp ==
    /\ pc = "b_up"
    /\ \E f \in PoolFails :
        LET r == scale_pool_nodes(pools.scaleUp, ScaleUpTarget(current_nodes),
                                  call.dry_run, f)
        IN  /\ pools' = [pools EXCEPT !.scaleUp = r.pool]
            /\ log' = log \o [i \in 1..Len(r.issued) |-> <<"scaleUp">> \o r.issued[i]]
            /\ reads' = (IF r.read THEN Append(reads, "scaleUp") ELSE reads)
            /\ result' = r.result
            /\ failed' = (IF r.raised
                          THEN failed \cup {<<"scaleUp", "scale_pool_nodes">>}
                          ELSE failed)
            /\ pc' = (IF r.raised THEN "b_except" ELSE "b_next")
    /\ UNCHANGED <<triggerSide, domainCfg, linkedService, vaults, ret, exc, call,
                   raised, dom, k, current_nodes, moved, secrets, pre, domExc,
                   warned>>

\* except Exception as e: print(...); continue
BatchExcept ==
    /\ pc = "b_except"
    /\ domExc' = TRUE
    /\ pc' = "b_next"
    /\ UNCHANGED <<triggerSide, elsewhere, ret, exc, call, raised, dom, k, pre,
                   log>>

\* for batch_config in batch_configs: the next domain, or the end of the run
BatchNext ==
    /\ pc = "b_next"
    /\ \/ /\ dom < Len(Domains)
          /\ dom' = dom + 1
          /\ pc' = "b_clients"
          /\ pools' = domainCfg.pools /\ pre' = domainCfg.pools
          /\ current_nodes' = 0 /\ result' = NoResult
          /\ log' = <<>> /\ reads' = <<>> /\ domExc' = FALSE
          /\ failed' = {}
          /\ UNCHANGED moved
       \/ /\ dom = Len(Domains)
          /\ pc' = "returned"
          /\ moved' = (IF ~call.dry_run /\ ~domExc THEN current_nodes ELSE 0)
          /\ UNCHANGED <<pools, dom, current_nodes, reads, result, pre, log,
                         domExc, failed>>
    /\ UNCHANGED <<triggerSide, domainCfg, linkedService, vaults, ret, exc, call,
                   raised, k, secrets, warned>>

NextBatch ==
    \/ CallScalePool \/ CallScaleBatch \/ Return
    \/ BatchClients \/ BatchRead \/ BatchDown \/ BatchUp \/ BatchExcept
    \/ BatchNext

SpecBatch == InitBatch /\ [][NextBatch]_vars

\* ------------------------------------------------------------- sync_key_vaults
InitKV ==
    /\ rgLocks = NoLocks /\ triggers = NoTriggers
    /\ linkedService = NoService /\ pools = NoPools
    /\ vaults \in VaultStates
    /\ domainCfg = DomainConfig
    /\ InitControl

\* a run that syncs in either mode
SyncsAlways(mode) == FALSE
\* if config.get("mode") == "failback": print("Skip syncing ..."); return
SkipSyncing(mode) == mode = "failback"

\* python DR_sync_kv.py --dry-run dry, on a build.json with config.mode mode
CallSync ==
    /\ pc = "idle"
    /\ \E dry \in BOOLEAN, mode \in {"failover", "failback"} :
        /\ call' = [NoCall EXCEPT !.op = "sync_key_vaults", !.dry_run = dry,
                                  !.mode = mode]
        /\ pc' = (IF SkipSyncing(mode) THEN "returned" ELSE "k_clients")
    /\ dom' = 1
    /\ pre' = vaults /\ log' = <<>>
    /\ domainCfg' = [domainCfg EXCEPT !.vaults = vaults]
    /\ UNCHANGED <<triggerSide, linkedService, pools, vaults, ret, exc, raised,
                   k, batchLocals, secrets, result, domExc, failed, warned>>

\* source_kv = AzureKeyVault(...); target_kv = AzureKeyVault(...)
KvClients ==
    /\ pc = "k_clients"
    /\ pc' \in {"k_list", "k_except"}
    /\ UNCHANGED <<triggerSide, elsewhere, ret, exc, call, raised, dom, k, pre,
                   log, domExc>>

\* secrets = source_kv.list_secrets(); if not secrets: continue
KvList ==
    /\ pc = "k_list"
    /\ \/ /\ secrets' = list_secrets(vaults.source)
          /\ k' = 1
          /\ pc' = (IF list_secrets(vaults.source) = <<>> THEN "k_next"
                    ELSE "k_secret")
       \/ /\ pc' = "k_except"
          /\ UNCHANGED <<secrets, k>>
    /\ UNCHANGED <<triggerSide, domainCfg, linkedService, pools, vaults, ret,
                   exc, call, raised, dom, batchLocals, result, pre, log,
                   domExc, failed, warned>>

\* for secret in secrets: try: ... except Exception as e: print(...); continue
KvSecret ==
    /\ pc = "k_secret"
    /\ \/ /\ k <= Len(secrets)
          /\ \E f \in SecretFails :
              LET r == sync_secret(vaults, secrets[k], call.dry_run, f)
              IN  /\ vaults' = r.vaults
                  /\ log' = log \o r.issued
                  /\ failed' = failed \cup r.failed
          /\ k' = k + 1
          /\ UNCHANGED pc
       \/ /\ k > Len(secrets)
          /\ pc' = "k_next"
          /\ UNCHANGED <<vaults, log, failed, k>>
    /\ UNCHANGED <<triggerSide, domainCfg, linkedService, pools, ret, exc, call,
                   raised, dom, batchLocals, secrets, result, pre, domExc,
                   warned>>

\* except Exception as e: print(f"Error processing key vaults: ..."); continue
KvExcept ==
    /\ pc = "k_except"
    /\ domExc' = TRUE
    /\ pc' = "k_next"
    /\ UNCHANGED <<triggerSide, elsewhere, ret, exc, call, raised, dom, k, pre,
                   log>>

\* for kv_config in kv_configs: the next domain, or the end of the run
KvNext ==
    /\ pc = "k_next"
    /\ \/ /\ dom < Len(Domains)
          /\ dom' = dom + 1
          /\ pc' = "k_clients"
          /\ vaults' = domainCfg.vaults /\ pre' = domainCfg.vaults
          /\ secrets' = <<>> /\ k' = 0
          /\ log' = <<>> /\ domExc' = FALSE /\ failed' = {}
       \/ /\ dom = Len(Domains)
          /\ pc' = "returned"
          /\ UNCHANGED <<vaults, dom, secrets, k, pre, log, domExc, failed>>
    /\ UNCHANGED <<triggerSide, domainCfg, linkedService, pools, ret, exc, call,
                   raised, batchLocals, result, warned>>

NextKV ==
    \/ CallSync \/ Return
    \/ KvClients \/ KvList \/ KvSecret \/ KvExcept \/ KvNext

SpecKV == InitKV /\ [][NextKV]_vars

\* ----------------------------------------------- AzureAuthentication.get_token
\* nothing but the authentication object
NoCloud ==
    /\ rgLocks = NoLocks /\ triggers = NoTriggers
    /\ linkedService = NoService /\ pools = NoPools /\ vaults = NoVaults
    /\ domainCfg = DomainConfig

InitAuth == NoCloud /\ InitControl

\* what get_token leaves alone
notAuth == <<rgLocks, triggers, domainCfg, linkedService, pools, vaults, pc, ret,
             exc, call, raised, dom, lockLocals, tlist, k, resetLocals,
             batchLocals, secrets, result, histDom, pre, log, failed, warned,
             storageVars, json_data, pipelineVars, syncVars, mpeVars>>

\* a minute passes
Tick ==
    /\ now < MaxClock
    /\ now' = now + 1
    /\ UNCHANGED <<notAuth, token, token_expiry, issued, tpc, tlocal>>

\* a caller enters get_token: now = datetime.now()
AuthCall(t) ==
    /\ tpc[t] = "idle"
    /\ tlocal' = [tlocal EXCEPT ![t] = [NoLocals EXCEPT !.now = now]]
    /\ tpc' = [tpc EXCEPT ![t] = "check"]
    /\ UNCHANGED <<notAuth, now, token, token_expiry, issued>>

\* if self.token is None or self.token_expiry is None or now >= self.token_expiry
AuthCheck(t) ==
    /\ tpc[t] = "check"
    /\ tlocal' = [tlocal EXCEPT ![t].before =
                    Some([token |-> token, token_expiry |-> token_expiry])]
    /\ tpc' = [tpc EXCEPT ![t] =
                IF NeedsToken(token, token_expiry, tlocal[t].now)
                THEN "request" ELSE "return"]
    /\ UNCHANGED <<notAuth, now, token, token_expiry, issued>>

\* token_response = self.credential.get_token(...): the credential issues a new
\* token (MaxTokens at most), or raises
AuthRequest(t) ==
    /\ tpc[t] = "request"
    /\ \/ \E life \in Lifetimes :
            LET token_response == [token |-> Len(issued) + 1,
                                   expires_on |-> now + life]
            IN  /\ Len(issued) < MaxTokens
                /\ issued' = Append(issued, token_response)
                /\ tlocal' = [tlocal EXCEPT ![t].asked = TRUE,
                                ![t].token_response = Some(token_response)]
                /\ tpc' = [tpc EXCEPT ![t] = "set_token"]
       \/ /\ tlocal' = [tlocal EXCEPT ![t].asked = TRUE, ![t].raised = TRUE]
          /\ tpc' = [tpc EXCEPT ![t] = "done"]
          /\ UNCHANGED issued
    /\ UNCHANGED <<notAuth, now, token, token_expiry>>

\* self.token = token_response.token
AuthSetToken(t) ==
    /\ tpc[t] = "set_token"
    /\ token' = Some(tlocal[t].token_response[1].token)
    /\ tpc' = [tpc EXCEPT ![t] = "set_expiry"]
    /\ UNCHANGED <<notAuth, now, token_expiry, issued, tlocal>>

\* self.token_expiry = datetime.fromtimestamp(token_response.expires_on)
\*     - timedelta(minutes=5)
AuthSetExpiry(t) ==
    /\ tpc[t] = "set_expiry"
    /\ token_expiry' = Some(ExpiryOf(tlocal[t].token_response[1]))
    /\ tpc' = [tpc EXCEPT ![t] = "return"]
    /\ UNCHANGED <<notAuth, now, token, issued, tlocal>>

\* return self.token
AuthReturn(t) ==
    /\ tpc[t] = "return"
    /\ tlocal' = [tlocal EXCEPT ![t].returned = token]
    /\ tpc' = [tpc EXCEPT ![t] = "done"]
    /\ UNCHANGED <<notAuth, now, token, token_expiry, issued>>

\* the caller uses the token, and may call again
AuthDone(t) ==
    /\ tpc[t] = "done"
    /\ tlocal' = [tlocal EXCEPT ![t] = NoLocals]
    /\ tpc' = [tpc EXCEPT ![t] = "idle"]
    /\ UNCHANGED <<notAuth, now, token, token_expiry, issued>>

get_token(t) ==
    \/ AuthCall(t) \/ AuthCheck(t) \/ AuthRequest(t) \/ AuthSetToken(t)
    \/ AuthSetExpiry(t) \/ AuthReturn(t) \/ AuthDone(t)

\* one caller
NextAuth == Tick \/ get_token(1)

SpecAuth == InitAuth /\ [][NextAuth]_vars

\* callers sharing one AzureAuthentication
NextAuthShared == Tick \/ \E t \in Threads : get_token(t)

SpecAuthShared == InitAuth /\ [][NextAuthShared]_vars

\* ------------------------------------------------------ update_snowflake_fqdns
\* a factory with or without a Snowflake linked service, in a resource group
\* with or without locks
InitFqdn ==
    /\ rgLocks \in LockStates /\ triggers = NoTriggers
    /\ linkedService \in LinkedServices \cup {NoService}
    /\ pools = NoPools /\ vaults = NoVaults
    /\ domainCfg = DomainConfig
    /\ InitControl

\* python DR_update_sf_ls_fqdn.py --old-fqdn old --new-fqdn new --dry-run dry
CallFqdn ==
    /\ pc = "idle"
    /\ \E old \in Hosts, new \in Hosts, dry \in BOOLEAN :
        call' = [NoCall EXCEPT !.op = "update_snowflake_fqdns",
                               !.old_fqdn = old, !.new_fqdn = new,
                               !.dry_run = dry]
    /\ pc' = "f_client" /\ dom' = 1
    /\ pre' = linkedService /\ log' = <<>>
    /\ UNCHANGED <<triggerSide, domainCfg, linkedService, pools, vaults, ret,
                   exc, raised, k, batchLocals, secrets, result, domExc,
                   failed, warned>>

\* linked_services = ADFLinkedServices(...), outside any try
FqdnClient ==
    /\ pc = "f_client"
    /\ pc' \in {"f_list", "crashed"}
    /\ raised' = (pc' = "crashed")
    /\ UNCHANGED <<triggerSide, domainCfg, linkedService, pools, vaults, ret,
                   exc, call, dom, k, batchLocals, secrets, result, pre, log,
                   domExc, failed, warned>>

\* snowflake_services = linked_services.list_linked_services(...), outside any
\* try; if not snowflake_services: continue
FqdnList ==
    /\ pc = "f_list"
    /\ \/ /\ pc' = (IF linkedService = NoService THEN "f_next" ELSE "f_update")
          /\ UNCHANGED raised
       \/ /\ pc' = "crashed"
          /\ raised' = TRUE
    /\ UNCHANGED <<triggerSide, domainCfg, linkedService, pools, vaults, ret,
                   exc, call, dom, k, batchLocals, secrets, result, pre, log,
                   domExc, failed, warned>>

\* for service in snowflake_services: try: update_linked_service_sf_account(...)
\* except Exception as e: print(...)
FqdnUpdate ==
    /\ pc = "f_update"
    /\ \E f \in LSFails :
        LET r == update_linked_service_sf_account(
                    linkedService, call.old_fqdn, call.new_fqdn, call.dry_run, f)
        IN  /\ linkedService' = r.service
            /\ log' = log \o r.issued
            /\ warned' = r.warned
            /\ failed' = IF r.raised
                         THEN failed \cup {<<"update_linked_service_sf_account">>}
                         ELSE failed
    /\ pc' = "f_next"
    /\ UNCHANGED <<triggerSide, domainCfg, pools, vaults, ret, exc, call,
                   raised, dom, k, batchLocals, secrets, result, pre, domExc>>

\* for adf_config in adf_configs: the next domain, or the end of the run
FqdnNext ==
    /\ pc = "f_next"
    /\ \/ /\ dom < Len(Domains)
          /\ dom' = dom + 1
          /\ pc' = "f_client"
          /\ linkedService' = domainCfg.linkedService
          /\ pre' = domainCfg.linkedService
          /\ log' = <<>> /\ failed' = {} /\ warned' = FALSE
       \/ /\ dom = Len(Domains)
          /\ pc' = "returned"
          /\ UNCHANGED <<linkedService, dom, pre, log, failed, warned>>
    /\ UNCHANGED <<triggerSide, domainCfg, pools, vaults, ret, exc, call,
                   raised, k, batchLocals, secrets, result, domExc>>

NextFqdn == CallFqdn \/ FqdnClient \/ FqdnList \/ FqdnUpdate \/ FqdnNext

SpecFqdn == InitFqdn /\ [][NextFqdn]_vars

\* ------------------------------------------- AzureStorageCopy.copy_container
BlobNames == 1..MaxBlobs

\* what list_blobs can return: the names of a container's blobs, each once
Listings ==
    {s \in UNION {[1..n -> BlobNames] : n \in 0..MaxBlobs} :
        \A i, j \in DOMAIN s : s[i] = s[j] => i = j}

Containers ==
    {AbsentContainer} \cup [exists : {TRUE}, blobs : SUBSET BlobNames]

\* a source container with blobs or none, and a target account in which the
\* container exists or not
InitStorage ==
    /\ NoCloud /\ InitCalls
    /\ sourceSTG \in Listings /\ targetSTG \in Containers
    /\ mpe = NoEndpoints

\* what copy_container leaves alone
notStorage == <<rgLocks, triggers, domainCfg, linkedService, pools, vaults,
                dom, lockLocals, tlist, resetLocals, batchLocals,
                secrets, result, histDom, pre, warned, authVars,
                json_data, pipelineVars, syncVars, mpeVars>>

\* a loop that gives up at the first blob it cannot copy
OnCopyErrorBreak(i, listed) == Len(listed) + 1
\* except Exception as e: print(...); continue
OnCopyError(i, listed) == i + 1

\* copier.copy_container(source_container, overwrite=overwrite)
CallCopy ==
    /\ pc = "idle"
    /\ \E overwrite \in BOOLEAN :
        call' = [NoCall EXCEPT !.op = "copy_container", !.overwrite = overwrite]
    /\ pc' = "c_list" /\ log' = <<>>
    /\ ret' = "returned" /\ exc' = "returned"
    /\ UNCHANGED <<notStorage, storageVars, raised, k, failed>>

\* blobs = self.sourceSTG.list_blobs(source_container)
CopyList ==
    /\ pc = "c_list"
    /\ log' = Append(log, <<"list_blobs">>)
    /\ \/ /\ blobs' = sourceSTG
          /\ pc' = "c_ensure"
          /\ UNCHANGED raised
          /\ UNCHANGED failed
       \/ /\ Raise
          /\ failed' = failed \cup {<<"copy_container", container_i>>}
          /\ UNCHANGED blobs
    /\ UNCHANGED <<notStorage, sourceSTG, targetSTG, copied_count, call, k, ret,
                   exc>>

\* self.targetSTG.create_container_if_not_exists(target_container);
\* copied_count = 0
CopyEnsure ==
    /\ pc = "c_ensure"
    /\ log' = Append(log, <<"create_container_if_not_exists">>)
    /\ \/ /\ targetSTG' = [targetSTG EXCEPT !.exists = TRUE]
          /\ copied_count' = 0 /\ k' = 1
          /\ pc' = "c_loop"
          /\ UNCHANGED raised
          /\ UNCHANGED failed
       \/ /\ Raise
          /\ failed' = failed \cup {<<"copy_container", container_i>>}
          /\ UNCHANGED <<targetSTG, copied_count, k>>
    /\ UNCHANGED <<notStorage, sourceSTG, blobs, call, ret, exc>>

\* for blob in blobs: try: self.copy_blob(...); after the last one the count is
\* printed and copy_container returns
CopyLoop ==
    /\ pc = "c_loop"
    /\ IF k > Len(blobs)
       THEN /\ pc' = ret
            /\ UNCHANGED log
       ELSE /\ pc' = "b_ensure"
            /\ log' = Append(log, <<"copy_blob", blobs[k]>>)
    /\ UNCHANGED <<notStorage, storageVars, call, raised, k, ret, exc, failed>>

\* copy_blob: the blob clients, and
\* self.targetSTG.create_container_if_not_exists(target_container); what it
\* raises is caught in copy_container's loop
CopyBlobEnsure ==
    /\ pc = "b_ensure"
    /\ \/ /\ targetSTG' = [targetSTG EXCEPT !.exists = TRUE]
          /\ pc' = "b_upload"
          /\ UNCHANGED k
       \/ /\ k' = OnCopyError(k, blobs)
          /\ pc' = "c_loop"
          /\ UNCHANGED targetSTG
    /\ UNCHANGED <<notStorage, sourceSTG, blobs, copied_count, call, raised,
                   log, ret, exc, failed>>

\* copy_blob: target_blob_client.upload_blob_from_url(source_url, overwrite),
\* which raises when the blob is there and overwrite is false;
\* copied_count += 1
CopyBlobUpload ==
    /\ pc = "b_upload"
    /\ log' = Append(log, <<"upload_blob_from_url", blobs[k]>>)
    /\ \/ /\ call.overwrite \/ blobs[k] \notin targetSTG.blobs
          /\ targetSTG' = [targetSTG EXCEPT !.blobs = @ \cup {blobs[k]}]
          /\ copied_count' = copied_count + 1
          /\ k' = k + 1
       \/ /\ k' = OnCopyError(k, blobs)
          /\ UNCHANGED <<targetSTG, copied_count>>
    /\ pc' = "c_loop"
    /\ UNCHANGED <<notStorage, sourceSTG, blobs, call, raised, ret, exc, failed>>

NextStorage ==
    \/ CallCopy \/ CopyList \/ CopyEnsure \/ CopyLoop \/ CopyBlobEnsure
    \/ CopyBlobUpload \/ Return

SpecStorage == InitStorage /\ [][NextStorage]_vars

\* ------------------------------------------------------------ run_storage_sync
\* the --containers lists: names in any order, a name possibly twice
ContainerArgs == UNION {[1..n -> ContainerNames] : n \in 0..MaxContainers}

\* what run_storage_sync leaves alone, its calls of copy_container apart
notSync == <<rgLocks, triggers, domainCfg, linkedService, pools, vaults, dom,
             lockLocals, tlist, k, resetLocals, batchLocals, secrets, result,
             histDom, pre, warned, authVars, storageVars, json_data,
             pipelineVars, mpeVars>>

\* python DR_sync_storage.py --containers cs; every container of the list is
\* modelled by the one source listing and target container
CallStorageSync ==
    /\ pc = "idle"
    /\ \E cs \in ContainerArgs :
        call' = [NoCall EXCEPT !.op = "run_storage_sync", !.containers = cs]
    /\ pc' = "s_config" /\ log' = <<>>
    /\ UNCHANGED <<notSync, syncVars, ret, exc, raised, failed>>

\* stg_sync_config = get_stg_sync_config(config_file), and the four names read
\* from it: what this raises leaves run_storage_sync
SyncConfig ==
    /\ pc = "s_config"
    /\ \/ /\ pc' = "s_init"
          /\ UNCHANGED raised
       \/ /\ pc' = "returned" /\ raised' = TRUE
    /\ UNCHANGED <<notSync, syncVars, ret, exc, call, log, failed>>

\* storage_copy = AzureStorageCopy(...); when it raises, the outer handler
\* marks every container of the list
SyncInit ==
    /\ pc = "s_init"
    /\ \/ /\ pc' = "s_loop" /\ container_i' = 1
          /\ UNCHANGED <<sync_results, failed>>
       \/ /\ sync_results' =
                [c \in ContainerNames |->
                    IF \E i \in DOMAIN call.containers : call.containers[i] = c
                    THEN "error" ELSE sync_results[c]]
          /\ failed' = failed \cup {<<"AzureStorageCopy", 0>>}
          /\ pc' = "returned"
          /\ UNCHANGED container_i
    /\ UNCHANGED <<notSync, ret, exc, call, raised, log>>

\* for container_name in containers: try: storage_copy.copy_container(
\*     source_container=container_name, target_container=container_name,
\*     overwrite=True); after the last one the summary is printed
SyncLoop ==
    /\ pc = "s_loop"
    /\ IF container_i > Len(call.containers)
       THEN /\ pc' = "returned"
            /\ UNCHANGED <<ret, exc, log>>
       ELSE /\ pc' = "c_list" /\ ret' = "s_ok" /\ exc' = "s_err"
            /\ log' = Append(log, <<"copy_container",
                                    call.containers[container_i]>>)
    /\ UNCHANGED <<notSync, syncVars, call, raised, failed>>

\* sync_results[container_name] = {'status': 'success', ...}
SyncOk ==
    /\ pc = "s_ok"
    /\ sync_results' =
            [sync_results EXCEPT ![call.containers[container_i]] = "success"]
    /\ container_i' = container_i + 1
    /\ pc' = "s_loop"
    /\ UNCHANGED <<notSync, ret, exc, call, raised, log, failed>>

\* a loop that leaves at the first container it cannot copy
OnContainerErrorStop(i, containers) == Len(containers) + 1
\* except Exception as e: ...; the for loop goes on
OnContainerError(i, containers) == i + 1

\* except Exception as e: sync_results[container_name] = {'status': 'error', ...}
SyncErr ==
    /\ pc = "s_err"
    /\ sync_results' =
            [sync_results EXCEPT ![call.containers[container_i]] = "error"]
    /\ container_i' = OnContainerError(container_i, call.containers)
    /\ pc' = "s_loop"
    /\ UNCHANGED <<notSync, ret, exc, call, raised, log, failed>>

NextSync ==
    \/ CallStorageSync \/ SyncConfig \/ SyncInit \/ SyncLoop \/ SyncOk
    \/ SyncErr \/ Return
    \/ CopyList \/ CopyEnsure \/ CopyLoop \/ CopyBlobEnsure \/ CopyBlobUpload

SpecSync == InitStorage /\ [][NextSync]_vars

\* ------------------------------------------------------ build.py: create_maps
batch_map ==
    [Sales |-> [qa |-> "qaBatchSales", prod |-> "prodBatchSales",
         DR |-> "DRBatchSales",
         pool |-> [qa |-> "qapoolBatchSales", prod |-> "prodpoolBatchSales",
             DR |-> "DRpoolBatchSales"]],
     Finance |-> [qa |-> "qaBatchFinance", prod |-> "prodBatchFinance",
         DR |-> "DRBatchFinance",
         pool |-> [qa |-> "qapoolBatchFinance", prod |-> "prodpoolBatchFinance",
             DR |-> "DRpoolBatchFinance"]],
     Customer |-> [qa |-> "qaBatchCustomer", prod |-> "prodBatchCustomer",
         DR |-> "DRBatchCustomer",
         pool |-> [qa |-> "qapoolBatchCustomer", prod |-> "prodpoolBatchCustomer",
             DR |-> "DRpoolBatchCustomer"]],
     Accounting |-> [qa |-> "qaBatchAccounting", prod |-> "prodBatchAccounting",
         DR |-> "DRBatchAccounting",
         pool |-> [qa |-> "qapoolBatchAccounting",
             prod |-> "prodpoolBatchAccounting",
             DR |-> "DRpoolBatchAccounting"]],
     Nonedw |-> [qa |-> "qaBatchNonedw", prod |-> "prodBatchNonedw",
         DR |-> "DRBatchNonedw",
         pool |-> [qa |-> "qapoolBatchNonedw", prod |-> "prodpoolBatchNonedw",
             DR |-> "DRpoolBatchNonedw"]],
     Associates |-> [qa |-> "qaBatchAssociates", prod |-> "prodBatchAssociates",
         DR |-> "DRBatchAssociates",
         pool |-> [qa |-> "qapoolBatchAssociates",
             prod |-> "prodpoolBatchAssociates",
             DR |-> "DRpoolBatchAssociates"]]]

storage_map ==
    [Sales |-> [qa |-> "qaStorageSales", prod |-> "prodStorageSales",
         DR |-> "DRStorageSales"],
     Finance |-> [qa |-> "qaStorageFinance", prod |-> "prodStorageFinance",
         DR |-> "DRStorageFinance"],
     Customer |-> [qa |-> "qaStorageCustomer", prod |-> "prodStorageCustomer",
         DR |-> "DRStorageCustomer"],
     Accounting |-> [qa |-> "qaStorageAccounting", prod |-> "prodStorageAccounting",
         DR |-> "DRStorageAccounting"],
     Nonedw |-> [qa |-> "qaStorageNonedw", prod |-> "prodStorageNonedw",
         DR |-> "DRStorageNonedw"],
     Associates |-> [qa |-> "qaStorageAssociates", prod |-> "prodStorageAssociates",
         DR |-> "DRStorageAssociates"]]

kv_map ==
    [Sales |-> [qa |-> "qaKvSales", prod |-> "prodKvSales", DR |-> "DRKvSales"],
     Finance |-> [qa |-> "qaKvFinance", prod |-> "prodKvFinance", DR |-> "DRKvFinance"],
     Customer |-> [qa |-> "qaKvCustomer", prod |-> "prodKvCustomer",
         DR |-> "DRKvCustomer"],
     Accounting |-> [qa |-> "qaKvAccounting", prod |-> "prodKvAccounting",
         DR |-> "DRKvAccounting"],
     Nonedw |-> [qa |-> "qaKvNonedw", prod |-> "prodKvNonedw", DR |-> "DRKvNonedw"],
     Associates |-> [qa |-> "qaKvAssociates", prod |-> "prodKvAssociates",
         DR |-> "DRKvAssociates"]]

adf_map ==
    [Sales |-> [qa |-> "qaSalesADF", prod |-> "prodSalesADF", DR |-> "DRSalesADF"],
     Finance |-> [qa |-> "qaFinanceADF", prod |-> "prodFinanceADF",
         DR |-> "DRFinanceADF"],
     Customer |-> [qa |-> "qaCustomerADF", prod |-> "prodCustomerADF",
         DR |-> "DRCustomerADF"],
     Accounting |-> [qa |-> "qaAccountingADF", prod |-> "prodAccountingADF",
         DR |-> "DRAccountingADF"],
     Retail |-> [qa |-> "qaRetailADF", prod |-> "prodRetailADF", DR |-> "DRRetailADF"],
     Nonedw |-> [qa |-> "qaNonedwADF", prod |-> "prodNonedwADF", DR |-> "DRNonedwADF"],
     Associates |-> [qa |-> "qaAssociatesADF", prod |-> "prodAssociatesADF",
         DR |-> "DRAssociatesADF"]]

rg_map ==
    [Sales |-> [qa |-> "qaSalesRG", prod |-> "prodSalesRG", DR |-> "DRSalesRG"],
     Finance |-> [qa |-> "qaFinanceRG", prod |-> "prodFinanceRG", DR |-> "DRFinanceRG"],
     Customer |-> [qa |-> "qaCustomerRG", prod |-> "prodCustomerRG",
         DR |-> "DRCustomerRG"],
     Accounting |-> [qa |-> "qaAccountingRG", prod |-> "prodAccountingRG",
         DR |-> "DRAccountingRG"],
     Retail |-> [qa |-> "qaRetailRG", prod |-> "prodRetailRG", DR |-> "DRRetailRG"],
     Nonedw |-> [qa |-> "qaNonedwRG", prod |-> "prodNonedwRG", DR |-> "DRNonedwRG"],
     Associates |-> [qa |-> "qaAssociatesRG", prod |-> "prodAssociatesRG",
         DR |-> "DRAssociatesRG"]]

\* ---------------------------------------------------- build.py: generate_json
ordered_domains ==
    <<"Sales", "Finance", "Customer", "Accounting", "Nonedw", "Associates">>
adf_domains == ordered_domains \o <<"Retail">>

Modes == {"failover", "failback"}
DomainArgs ==
    {"All", "Retail"}
        \cup {ordered_domains[i] : i \in 1..Len(ordered_domains)}
EnvironmentArgs == {"qa", "prod", "QA"}

\* environment.lower()
Lower(environment) ==
    CASE environment = "QA" -> "qa"
      [] environment = "qa" -> "qa"
      [] environment = "prod" -> "prod"

\* a JSON document a caller hands over, and what json.loads makes of it; a
\* value that is one object or a list of objects is written
\* [list |-> ..., items |-> ...]
CustomerText ==
    "{\"ADFTrigger\": {\"start\": {\"resourceGroup\": \"qaSalesRG\", \"adf\": \"qaSalesADF\"}, \"stop\": {\"resourceGroup\": \"qaSalesRG\", \"adf\": \"qaSalesADF\"}}}"
CustomerDoc ==
    [ADFTrigger |->
        [list |-> FALSE,
         items |-> <<[start |-> [resourceGroup |-> "qaSalesRG",
                                 adf |-> "qaSalesADF"],
                      stop |-> [resourceGroup |-> "qaSalesRG",
                                adf |-> "qaSalesADF"]]>>]]
CustomerJsons == {None, Some(""), Some("{"), Some(CustomerText)}

\* if customer_json:
Truthy(customer_json) == customer_json # None /\ customer_json # Some("")

\* json.loads(customer_json) raises on text that is no JSON document
Loads(text) == text = CustomerText
json_loads(text) == CustomerDoc

\* json_data["config"]
Config(c) ==
    [mode |-> c.mode, storage |-> c.storage, snowflake |-> c.snowflake,
     azure |-> c.azure, domain |-> c.domain, environment |-> c.environment]

StorageGRS(d, c) ==
    [resourceGroup |-> rg_map[d][Lower(c.environment)],
     storage |-> storage_map[d][Lower(c.environment)]]

\* azure not fail, failover the fqdn in east ADF; azure fail, failover the fqdn
\* in DR ADF; failback only the fqdn in east ADF
ADFLinkedServiceFQDN(d, c) ==
    IF c.mode = "failover"
    THEN [resourceGroup |-> IF c.azure THEN rg_map[d]["DR"]
                            ELSE rg_map[d][Lower(c.environment)],
          adf |-> IF c.azure THEN adf_map[d]["DR"]
                  ELSE adf_map[d][Lower(c.environment)]]
    ELSE [resourceGroup |-> rg_map[d][Lower(c.environment)],
          adf |-> adf_map[d][Lower(c.environment)]]

\* failover scale up DR, scale down east; failback scale up east, scale down DR
BatchAccountScale(d, c) ==
    [scaleUp |->
        [resourceGroup |-> IF c.mode = "failover" THEN rg_map[d]["DR"]
                           ELSE rg_map[d][Lower(c.environment)],
         batch |-> IF c.mode = "failover" THEN batch_map[d]["DR"]
                   ELSE batch_map[d][Lower(c.environment)],
         pool |-> IF c.mode = "failover" THEN batch_map[d]["pool"]["DR"]
                  ELSE batch_map[d]["pool"][Lower(c.environment)]],
     scaleDown |->
        [resourceGroup |-> IF c.mode = "failover"
                           THEN rg_map[d][Lower(c.environment)]
                           ELSE rg_map[d]["DR"],
         batch |-> IF c.mode = "failover"
                   THEN batch_map[d][Lower(c.environment)]
                   ELSE batch_map[d]["DR"],
         pool |-> IF c.mode = "failover"
                  THEN batch_map[d]["pool"][Lower(c.environment)]
                  ELSE batch_map[d]["pool"]["DR"]]]

\* a generator that starts the DR side in either mode
StartTagAlwaysDR(mode, environment) == "DR"
\* "start": ... ["DR"] if mode == "failover" else ... [environment.lower()]
StartTag(mode, environment) ==
    IF mode = "failover" THEN "DR" ELSE Lower(environment)
\* "stop": ... [environment.lower()] if mode == "failover" else ... ["DR"]
StopTag(mode, environment) ==
    IF mode = "failover" THEN Lower(environment) ELSE "DR"

\* failover start DR, stop east; failback start east, stop DR
ADFTrigger(d, c) ==
    [start |-> [resourceGroup |-> rg_map[d][StartTag(c.mode, c.environment)],
                adf |-> adf_map[d][StartTag(c.mode, c.environment)]],
     stop |-> [resourceGroup |-> rg_map[d][StopTag(c.mode, c.environment)],
               adf |-> adf_map[d][StopTag(c.mode, c.environment)]]]

\* failover and failback are the same
KvSync(d, c) ==
    [from |-> [resourceGroup |-> rg_map[d][Lower(c.environment)],
               kv |-> kv_map[d][Lower(c.environment)]],
     to |-> [resourceGroup |-> rg_map[d]["DR"], kv |-> kv_map[d]["DR"]]]

StgSync(d, c) ==
    [from |-> [resourceGroup |-> rg_map[d][Lower(c.environment)],
               stg |-> storage_map[d][Lower(c.environment)]],
     to |-> [resourceGroup |-> rg_map[d]["DR"], stg |-> storage_map[d]["DR"]]]

\* the keys a call adds to json_data after "config": for domain "All" each
\* holds the list of the domains' entries, else the entry of the one domain
Sections(c) ==
    LET Names(ds) == {ds[i] : i \in 1..Len(ds)}
        Pack(entry, ds) ==
            IF c.domain = "All"
            THEN [list |-> TRUE,
                  items |-> [i \in 1..Len(ds) |-> entry[ds[i]]]]
            ELSE [list |-> FALSE, items |-> <<entry[c.domain]>>]
    IN  (IF c.storage
         THEN [storageGRS |->
                Pack([d \in Names(ordered_domains) |-> StorageGRS(d, c)],
                     ordered_domains)]
         ELSE <<>>)
        @@ (IF c.snowflake
            THEN [ADFLinkedServiceFQDN |->
                    Pack([d \in Names(adf_domains) |->
                            ADFLinkedServiceFQDN(d, c)], adf_domains)]
            ELSE <<>>)
        @@ (IF c.azure
            THEN [batchAccountScale |->
                    Pack([d \in Names(ordered_domains) |->
                            BatchAccountScale(d, c)], ordered_domains),
                  ADFTrigger |->
                    Pack([d \in Names(adf_domains) |-> ADFTrigger(d, c)],
                         adf_domains),
                  kvSync |->
                    Pack([d \in Names(ordered_domains) |-> KvSync(d, c)],
                         ordered_domains),
                  StgSync |->
                    Pack([d \in Names(ordered_domains) |-> StgSync(d, c)],
                         ordered_domains)]
            ELSE <<>>)

\* what generate_json leaves alone
notBuild == <<rgLocks, triggers, domainCfg, linkedService, pools, vaults,
              ret, exc, dom, lockLocals, tlist, k, resetLocals, batchLocals,
              secrets, result, histDom, pre, log, failed, warned, authVars,
              storageVars, pipelineVars, syncVars, mpeVars>>

\* python build.py --mode ... --storage ... --snowflake ... --azure ...
\* --domain ... --environment ... --customer-json ...
CallGenerate ==
    /\ pc = "idle"
    /\ \E mode \in Modes, storage \in BOOLEAN, snowflake \in BOOLEAN,
          azure \in BOOLEAN, domain \in DomainArgs,
          environment \in EnvironmentArgs, customer_json \in CustomerJsons :
        call' = [NoCall EXCEPT !.op = "generate_json", !.mode = mode,
                               !.storage = storage, !.snowflake = snowflake,
                               !.azure = azure, !.domain = domain,
                               !.environment = environment,
                               !.customer_json = customer_json]
    /\ pc' = "g_customer"
    /\ UNCHANGED <<notBuild, json_data, raised>>

\* if customer_json: return json.loads(customer_json); else the maps and
\* json_data["config"]
GenConfig ==
    /\ pc = "g_customer"
    /\ IF Truthy(call.customer_json)
       THEN IF Loads(call.customer_json[1])
            THEN /\ json_data' = json_loads(call.customer_json[1])
                 /\ pc' = "returned"
                 /\ UNCHANGED raised
            ELSE /\ pc' = "returned" /\ raised' = TRUE
                 /\ UNCHANGED json_data
       ELSE /\ json_data' = [config |-> Config(call)]
            /\ pc' = (IF call.domain = "All" THEN "g_all" ELSE "g_single")
            /\ UNCHANGED raised
    /\ UNCHANGED <<notBuild, call>>

\* if domain == "All": a list for every key; return json_data
GenAll ==
    /\ pc = "g_all"
    /\ json_data' = json_data @@ Sections(call)
    /\ pc' = "returned"
    /\ UNCHANGED <<notBuild, call, raised>>

\* else: Retail raises ValueError, any other domain gets one object for every
\* key; return json_data
GenSingle ==
    /\ pc = "g_single"
    /\ IF call.domain = "Retail"
       THEN /\ raised' = TRUE
            /\ UNCHANGED json_data
       ELSE /\ json_data' = json_data @@ Sections(call)
            /\ UNCHANGED raised
    /\ pc' = "returned"
    /\ UNCHANGED <<notBuild, call>>

generate_json == CallGenerate \/ GenConfig \/ GenAll \/ GenSingle

\* DR_sync_storage.get_stg_sync_config on the document data: "StgSync" must be
\* a key, "from" and "to" must be in its value (for a list `in` looks among the
\* elements, which are objects), and each must hold "stg"
get_stg_sync_config(data) ==
    LET error == [raised |-> TRUE, config |-> <<>>] IN
    IF "StgSync" \notin DOMAIN data THEN error
    ELSE IF data.StgSync.list THEN error
    ELSE LET stg_sync_config == data.StgSync.items[1] IN
         IF ~({"from", "to"} \subseteq DOMAIN stg_sync_config) THEN error
         ELSE IF \/ "stg" \notin DOMAIN stg_sync_config["from"]
                 \/ "stg" \notin DOMAIN stg_sync_config["to"]
         THEN error
         ELSE [raised |-> FALSE, config |-> stg_sync_config]

\* run_storage_sync reads the build.json that generate_json returned:
\* stg_sync_config = get_stg_sync_config(config_file)
ReadStgSync ==
    /\ pc = "returned" /\ call.op = "generate_json" /\ ~raised
    /\ call' = [call EXCEPT !.op = "get_stg_sync_config"]
    /\ raised' = get_stg_sync_config(json_data).raised
    /\ result' = (IF get_stg_sync_config(json_data).raised THEN NoResult
                  ELSE [kind |-> "StgSync",
                        config |-> get_stg_sync_config(json_data).config])
    /\ UNCHANGED <<rgLocks, triggers, domainCfg, linkedService, pools, vaults,
                   pc, ret, exc, dom, lockLocals, tlist, k, resetLocals,
                   batchLocals, secrets, histDom, pre, log, failed, warned,
                   apart>>

InitBuild == NoCloud /\ InitControl

NextBuild == generate_json \/ ReadStgSync \/ Return

SpecBuild == InitBuild /\ [][NextBuild]_vars

\* ------------------------------------------ AzureResourceLock, called directly
\* a locker built while the resource group had no locks, and the group with
\* the locks it may have got since
InitLock ==
    /\ rgLocks \in LockStates /\ triggers = NoTriggers
    /\ linkedService = NoService /\ pools = NoPools /\ vaults = NoVaults
    /\ domainCfg = DomainConfig
    /\ InitControl

Levels == {"CanNotDelete", "ReadOnly", "NotSpecified"}
Notes == {"None", "Test lock for automation"}
LockFails == {"none", "list", "create", "refresh"}

\* AzureResourceLock.create_lock(lock_name, level, notes) as one call: the
\* group and lock_objs after it, the call it issued, and whether it raised.
\* fail names the SDK call that raises, if any.
create_lock(lk, objs, lock_name, level, notes, fail) ==
    IF level \notin {"CanNotDelete", "ReadOnly"} \/ fail = "list"
    THEN [locks |-> lk, lock_objs |-> objs, issued |-> <<>>, raised |-> TRUE]
    ELSE IF lk[lock_name].exists
    THEN [locks |-> lk, lock_objs |-> get_locks(lk), issued |-> <<>>,
          raised |-> FALSE]
    ELSE IF fail = "create"
    THEN [locks |-> lk, lock_objs |-> get_locks(lk),
          issued |-> <<<<"create_lock", lock_name>>>>, raised |-> TRUE]
    ELSE LET created == create_or_update_lock(lk,
                [name |-> lock_name, level |-> level, notes |-> notes])
         IN  [locks |-> created,
              lock_objs |-> IF fail = "refresh" THEN get_locks(lk)
                            ELSE get_locks(created),
              issued |-> <<<<"create_lock", lock_name>>>>,
              raised |-> fail = "refresh"]

\* what no AzureResourceLock call touches
notLock == <<triggers, elsewhere, dom, locks, tlist, resetLocals, histDom>>

\* locker = AzureResourceLock(resource_group_name): self.lock_objs =
\* self.get_locks(); self.deleted = False
NewLocker ==
    /\ pc = "idle"
    /\ call' = [NoCall EXCEPT !.op = "AzureResourceLock"]
    /\ \/ /\ lock_objs' = get_locks(rgLocks)
          /\ deleted' = FALSE
          /\ raised' = FALSE
       \/ /\ raised' = TRUE
          /\ UNCHANGED <<lock_objs, deleted>>
    /\ pc' = "returned" /\ pre' = rgLocks /\ log' = <<>>
    /\ UNCHANGED <<notLock, rgLocks, ret, exc, k>>

\* locker.create_lock(lock_name, level, notes)
CallCreateLock ==
    /\ pc = "idle"
    /\ \E n \in LockNames, level \in Levels, notes \in Notes, f \in LockFails :
        LET r == create_lock(rgLocks, lock_objs, n, level, notes, f) IN
        /\ call' = [NoCall EXCEPT !.op = "create_lock", !.name = n]
        /\ rgLocks' = r.locks
        /\ lock_objs' = r.lock_objs
        /\ log' = r.issued
        /\ raised' = r.raised
    /\ pc' = "returned" /\ pre' = rgLocks
    /\ UNCHANGED <<notLock, deleted, ret, exc, k>>

\* locker.release_locks(), locker.recreate_locks(), or the one right after the
\* other
CallLocker ==
    /\ pc = "idle"
    /\ \E op \in {"release_locks", "recreate_locks", "release_recreate"} :
        /\ call' = [NoCall EXCEPT !.op = op]
        /\ pc' = (IF op = "recreate_locks" THEN "recreate" ELSE "release")
        /\ ret' = (IF op = "release_recreate" THEN "released" ELSE "returned")
    /\ exc' = "returned" /\ k' = 1
    /\ pre' = rgLocks /\ log' = <<>> /\ raised' = FALSE
    /\ UNCHANGED <<notLock, rgLocks, lock_objs, deleted>>

\* release_locks has returned: locker.recreate_locks()
ThenRecreate ==
    /\ pc = "released"
    /\ pc' = "recreate" /\ ret' = "returned" /\ k' = 1
    /\ UNCHANGED <<notLock, rgLocks, lock_objs, deleted, exc, call, raised,
                   pre, log>>

NextLock ==
    \/ NewLocker \/ CallCreateLock \/ CallLocker \/ ThenRecreate
    \/ ReleaseLocks \/ RecreateLocks \/ Return

SpecLock == InitLock /\ [][NextLock]_vars

\* ------------------------------------------------- ADFPipeline.run_and_fetch
NoRun == [status |-> "none", activity |-> "none"]

\* a status check that keeps polling a cancelled run
EndsPollingUncancelled(s) == s \in {"Succeeded", "Failed"}
\* if status in ["Succeeded", "Failed", "Cancelled"]: break
EndsPolling(s) == s \in {"Succeeded", "Failed", "Cancelled"}

\* what the activity runs of a pipeline run hold under the name asked for: no
\* activity run, one without output.resultSets, or one with result sets
ActivityRuns == {"absent", "no_output", "resultSets"}

\* fetch_activity(activity_name)["output"]["resultSets"]: with no name
\* fetch_activity returns the list of all activity runs, with a name that no
\* activity run has it returns None, and the subscripts then raise
Subscriptable(activity_name, activity) ==
    activity_name # None /\ activity = "resultSets"

\* what run_and_fetch leaves alone
notPipeline == <<rgLocks, triggers, domainCfg, linkedService, pools, vaults,
                 ret, exc, dom, lockLocals, tlist, k, resetLocals,
                 batchLocals, secrets, histDom, pre, warned, authVars,
                 storageVars, json_data, syncVars, mpeVars>>

\* pipeline_runner.run_and_fetch(pipeline_name, activity_name, parameters)
CallRunAndFetch ==
    /\ pc = "idle"
    /\ \E activity_name \in {None, Some("Snowflake connectivity test")} :
        call' = [NoCall EXCEPT !.op = "run_and_fetch",
                               !.activity_name = activity_name]
    /\ pc' = "p_create" /\ log' = <<>>
    /\ pipeline_run' = NoRun /\ run_id' = None /\ status' = "none"
    /\ UNCHANGED <<notPipeline, result, failed, raised>>

\* self.create_run(pipeline_name, parameters): the factory queues a run, or the
\* call raises
PipeCreate ==
    /\ pc = "p_create"
    /\ log' = Append(log, <<"create_run">>)
    /\ \/ /\ \E activity \in ActivityRuns :
                pipeline_run' = [status |-> "Queued", activity |-> activity]
          /\ run_id' = Some(1)
          /\ pc' = "p_check"
          /\ UNCHANGED <<failed, raised>>
       \/ /\ failed' = failed \cup {<<"create_run">>}
          /\ pc' = "returned" /\ raised' = TRUE
          /\ UNCHANGED <<pipeline_run, run_id>>
    /\ UNCHANGED <<notPipeline, call, status, result>>

\* the factory works on the run
RunProgress ==
    /\ \/ /\ pipeline_run.status = "Queued"
          /\ \E s \in {"InProgress", "Cancelled"} :
                pipeline_run' = [pipeline_run EXCEPT !.status = s]
       \/ /\ pipeline_run.status = "InProgress"
          /\ \E s \in {"Succeeded", "Failed", "Cancelled"} :
                pipeline_run' = [pipeline_run EXCEPT !.status = s]
    /\ UNCHANGED <<notPipeline, pc, call, raised, log, run_id, status, result,
                   failed>>

\* while True: status_result = self.check_status();
\* status = status_result.get("status"); if status in [...]: break
PipeCheck ==
    /\ pc = "p_check"
    /\ \/ /\ status' = pipeline_run.status
          /\ pc' = (IF EndsPolling(pipeline_run.status) THEN "p_fetch"
                    ELSE "p_sleep")
          /\ UNCHANGED <<failed, raised>>
       \/ /\ failed' = failed \cup {<<"check_status">>}
          /\ pc' = "returned" /\ raised' = TRUE
          /\ UNCHANGED status
    /\ UNCHANGED <<notPipeline, call, log, pipeline_run, run_id, result>>

\* time.sleep(10)
PipeSleep ==
    /\ pc = "p_sleep"
    /\ pc' = "p_check"
    /\ UNCHANGED <<notPipeline, call, raised, log, pipeline_run, run_id,
                   status, result, failed>>

\* if status == "Succeeded":
\*     return self.fetch_activity(activity_name)["output"]["resultSets"]
\* else: raise Exception(...)
PipeFetch ==
    /\ pc = "p_fetch"
    /\ pc' = "returned"
    /\ IF status = "Succeeded"
       THEN /\ log' = Append(log, <<"fetch_activity">>)
            /\ \/ /\ Subscriptable(call.activity_name, pipeline_run.activity)
                  /\ result' = [kind |-> "resultSets", run_id |-> run_id]
                  /\ UNCHANGED <<failed, raised>>
               \/ /\ ~Subscriptable(call.activity_name, pipeline_run.activity)
                  /\ raised' = TRUE
                  /\ UNCHANGED <<failed, result>>
               \/ /\ failed' = failed \cup {<<"fetch_activity">>}
                  /\ raised' = TRUE
                  /\ UNCHANGED result
       ELSE /\ raised' = TRUE
            /\ UNCHANGED <<log, failed, result>>
    /\ UNCHANGED <<notPipeline, call, pipeline_run, run_id, status>>

run_and_fetch == CallRunAndFetch \/ PipeCreate \/ PipeCheck \/ PipeSleep \/ PipeFetch

InitPipeline == NoCloud /\ InitControl

NextPipeline == run_and_fetch \/ RunProgress \/ Return

SpecPipeline == InitPipeline /\ [][NextPipeline]_vars

\* check_status, time.sleep and fetch_activity are blocking calls of the one
\* thread that runs run_and_fetch: each returns or raises, and the thread
\* goes on
SpecPipelineLive ==
    /\ SpecPipeline
    /\ WF_vars(PipeCheck) /\ WF_vars(PipeSleep) /\ WF_vars(PipeFetch)

\* ------------------------------------------------- the runbook's scripts
\* one script of the runbook is run on the resources it works on
InitDR == Init \/ InitLS \/ InitBatch \/ InitKV

\* python DR_start_stop_adf_trigger.py ...
TriggerRun ==
    /\ linkedService = NoService /\ pools = NoPools /\ vaults = NoVaults
    /\ Next
\* update_linked_service_sf_account on the factory's linked service
LinkedServiceRun == linkedService # NoService /\ NextLS
\* python DR_scale_batch.py ...
BatchRun == pools # NoPools /\ NextBatch
\* python DR_sync_kv.py ...
KeyVaultRun == vaults # NoVaults /\ NextKV

NextDR == TriggerRun \/ LinkedServiceRun \/ BatchRun \/ KeyVaultRun

SpecDR == InitDR /\ [][NextDR]_vars

\* ---------------------------------------------------- manage_private_endpoints
\* domain = "kmx-qa"
domain_fqdn == "kmx-qa"
\* the FQDNs an endpoint may list beside it
OtherFqdns == {"a.privatelink", "b.privatelink"}
\* the fqdns of an endpoint: every name at most once
FqdnLists ==
    {s \in UNION {[1..n -> OtherFqdns \cup {domain_fqdn}] : n \in 0..MaxFqdns} :
        \A i, j \in DOMAIN s : s[i] = s[j] => i = j}
Endpoints == {AbsentEndpoint} \cup [exists : {TRUE}, fqdns : FqdnLists]
EndpointStates == [snowflake_east : Endpoints, snowflake_west : Endpoints]

InitEndpoints ==
    /\ NoCloud /\ InitCalls
    /\ sourceSTG = <<>> /\ targetSTG = AbsentContainer
    /\ mpe \in EndpointStates

\* what manage_private_endpoints leaves alone
notEndpoints == <<rgLocks, triggers, domainCfg, linkedService, pools, vaults,
                  ret, exc, raised, lockLocals, tlist, k, resetLocals,
                  batchLocals, secrets, result, locksBefore, resetExc,
                  recreateCalled, warned, authVars, storageVars, json_data,
                  pipelineVars, syncVars>>

\* `domain in fqdns`
Listed(fqdns) == \E i \in DOMAIN fqdns : fqdns[i] = domain_fqdn
\* [fqdn for fqdn in fqdns if fqdn != domain]
Without(fqdns) == SelectSeq(fqdns, LAMBDA fqdn : fqdn # domain_fqdn)

\* an add that does not look at the list
AddsAlways(fqdns) == TRUE
\* if domain not in fqdns
NeedsAdd(fqdns) == ~Listed(fqdns)

MpeFails == {"none", "get", "update"}

\* ADFManagedPrivateEndpoint.update_managed_private_endpoint_fqdn(name, fqdns):
\* get the endpoint, create_or_update it with the new fqdns and its groupId
\* and privateLinkResourceId
update_managed_private_endpoint_fqdn(eps, name, fqdns, fail) ==
    IF fail = "get" \/ ~eps[name].exists
    THEN [mpe |-> eps, issued |-> <<>>, raised |-> TRUE]
    ELSE IF fail = "update"
    THEN [mpe |-> eps, issued |-> <<<<"create_or_update", name, fqdns>>>>,
          raised |-> TRUE]
    ELSE [mpe |-> [eps EXCEPT ![name].fqdns = fqdns],
          issued |-> <<<<"create_or_update", name, fqdns>>>>,
          raised |-> FALSE]

\* python DR_sync_adf_private_endpoint.py --dry-run dry, on a build.json with
\* config.mode mode
CallEndpoints ==
    /\ pc = "idle"
    /\ \E dry \in BOOLEAN, mode \in Modes :
        call' = [NoCall EXCEPT !.op = "manage_private_endpoints",
                               !.dry_run = dry, !.mode = mode]
    /\ pc' = "e_client" /\ dom' = 1
    /\ pre' = mpe /\ log' = <<>>
    /\ UNCHANGED <<notEndpoints, mpeVars, domExc, failed>>

\* endpoint_mgr = ADFManagedPrivateEndpoint(...)
EpClient ==
    /\ pc = "e_client"
    /\ pc' \in {"e_east", "e_except"}
    /\ UNCHANGED <<notEndpoints, mpeVars, call, dom, pre, log, domExc, failed>>

\* try: east_fqdns = get_managed_private_endpoint(mpe_east)...get('fqdns', [])
\* except Exception: east_fqdns = []
EpGetEast ==
    /\ pc = "e_east"
    /\ \/ /\ mpe.snowflake_east.exists
          /\ east_fqdns' = mpe.snowflake_east.fqdns
          /\ UNCHANGED failed
       \/ /\ east_fqdns' = <<>>
          /\ failed' = failed \cup {<<"get", "snowflake_east">>}
    /\ pc' = "e_west"
    /\ UNCHANGED <<notEndpoints, mpe, west_fqdns, prev_mode, call, dom, pre,
                   log, domExc>>

\* try: west_fqdns = get_managed_private_endpoint(mpe_west)...get('fqdns', [])
\* except Exception: west_fqdns = []
EpGetWest ==
    /\ pc = "e_west"
    /\ \/ /\ mpe.snowflake_west.exists
          /\ west_fqdns' = mpe.snowflake_west.fqdns
          /\ UNCHANGED failed
       \/ /\ west_fqdns' = <<>>
          /\ failed' = failed \cup {<<"get", "snowflake_west">>}
    /\ pc' = "e_remove"
    /\ UNCHANGED <<notEndpoints, mpe, east_fqdns, prev_mode, call, dom, pre,
                   log, domExc>>

\* failover: if domain in east_fqdns: remove it from snowflake_east;
\* failback: if domain in west_fqdns: remove it from snowflake_west
EpRemove ==
    /\ pc = "e_remove"
    /\ LET name == IF call.mode = "failover" THEN "snowflake_east"
                   ELSE "snowflake_west"
           fqdns == IF call.mode = "failover" THEN east_fqdns ELSE west_fqdns
       IN  IF Listed(fqdns) /\ ~call.dry_run
           THEN \E f \in MpeFails :
                  LET r == update_managed_private_endpoint_fqdn(
                                mpe, name, Without(fqdns), f)
                  IN  /\ mpe' = r.mpe
                      /\ log' = log \o r.issued
                      /\ failed' = (IF r.raised
                                    THEN failed \cup {<<"update", name>>}
                                    ELSE failed)
                      /\ pc' = (IF r.raised THEN "e_except" ELSE "e_add")
           ELSE /\ pc' = "e_add"
                /\ UNCHANGED <<mpe, log, failed>>
    /\ UNCHANGED <<notEndpoints, east_fqdns, west_fqdns, prev_mode, call, dom,
                   pre, domExc>>

\* failover: if domain not in west_fqdns: add it to snowflake_west;
\* failback: if domain not in east_fqdns: add it to snowflake_east
EpAdd ==
    /\ pc = "e_add"
    /\ LET name == IF call.mode = "failover" THEN "snowflake_west"
                   ELSE "snowflake_east"
           fqdns == IF call.mode = "failover" THEN west_fqdns ELSE east_fqdns
       IN  IF NeedsAdd(fqdns) /\ ~call.dry_run
           THEN \E f \in MpeFails :
                  LET r == update_managed_private_endpoint_fqdn(
                                mpe, name, fqdns \o <<domain_fqdn>>, f)
                  IN  /\ mpe' = r.mpe
                      /\ log' = log \o r.issued
                      /\ failed' = (IF r.raised
                                    THEN failed \cup {<<"update", name>>}
                                    ELSE failed)
                      /\ pc' = (IF r.raised THEN "e_except" ELSE "e_next")
           ELSE /\ pc' = "e_next"
                /\ UNCHANGED <<mpe, log, failed>>
    /\ UNCHANGED <<notEndpoints, east_fqdns, west_fqdns, prev_mode, call, dom,
                   pre, domExc>>

\* except Exception as e: print(f"Error processing ADF ..."); continue
EpExcept ==
    /\ pc = "e_except"
    /\ domExc' = TRUE
    /\ pc' = "e_next"
    /\ UNCHANGED <<notEndpoints, mpeVars, call, dom, pre, log, failed>>

\* for config in adf_configs: the next factory, whose endpoints are as the
\* first one's were, or the end of the run
EpNext ==
    /\ pc = "e_next"
    /\ \/ /\ dom < Len(Domains)
          /\ dom' = dom + 1
          /\ pc' = "e_client"
          /\ mpe' = pre
          /\ east_fqdns' = <<>> /\ west_fqdns' = <<>>
          /\ log' = <<>> /\ domExc' = FALSE /\ failed' = {}
          /\ UNCHANGED prev_mode
       \/ /\ dom = Len(Domains)
          /\ pc' = "returned"
          /\ prev_mode' = (IF ~call.dry_run /\ ~domExc /\ failed = {}
                           THEN call.mode ELSE "none")
          /\ UNCHANGED <<mpe, east_fqdns, west_fqdns, dom, log, domExc,
                         failed>>
    /\ UNCHANGED <<notEndpoints, call, pre>>

NextEndpoints ==
    \/ CallEndpoints \/ EpClient \/ EpGetEast \/ EpGetWest \/ EpRemove
    \/ EpAdd \/ EpExcept \/ EpNext \/ Return

SpecEndpoints == InitEndpoints /\ [][NextEndpoints]_vars

\* ------------------------------------------------------------------ claims
\* C1: in manage_adf_triggers with dry_run false, a domain processed without
\* any exception leaves the resource group's locks (names, levels, notes), when
\* the loop moves on to the next domain, as they were before release_locks
C1_LocksRestored ==
    (pc = "d_next" /\ ~call.dry_run /\ ~domExc /\ ~resetExc)
        => rgLocks = locksBefore

\* C2 (as stated): once all recorded locks were released, a later step that
\* raises has recreate_locks invoked before the next domain, and every recorded
\* lock exists again with its name, level and notes
C2_AlwaysRecreated ==
    (pc \in {"d_next", "crashed"} /\ deleted /\ (domExc \/ resetExc))
        => (recreateCalled /\ rgLocks = locksBefore)

\* C2 (amended): once all recorded locks were released, a later step that
\* raises has recreate_locks invoked before the next domain; every lock it
\* creates has its recorded name, level and notes, and when the driver moves
\* on to the next domain every recorded lock exists again.  Only a create call
\* of recreate_locks that itself raises in the handler ends the run with
\* locks missing.
C2_RecreatedUnlessCreateFails ==
    (pc \in {"d_next", "crashed"} /\ deleted /\ (domExc \/ resetExc))
        => /\ recreateCalled
           /\ \A n \in LockNames : rgLocks[n].exists => rgLocks[n] = locksBefore[n]
           /\ pc = "d_next" => rgLocks = locksBefore

C2_Witness ==
    /\ pc = "d_next" /\ deleted /\ domExc /\ recreateCalled
    /\ rgLocks = locksBefore
    /\ \E n \in LockNames : rgLocks[n].exists /\ rgLocks[n].level = "ReadOnly"

\* C3: a manage_trigger(name, action) call that reads the target state issues
\* neither begin_stop nor begin_start and leaves the factory unchanged; and
\* after a call that did not raise, the same call again issues nothing and
\* changes nothing
C3_ManageTriggerIdempotent ==
    [][(pc = "idle" /\ call'.op = "manage_trigger")
        => /\ (/\ triggers[call'.name].exists
               /\ triggers[call'.name].runtime_state = TargetState(call'.action)
               /\ pre' = triggers)
              => (log' = <<>> /\ triggers' = triggers)
           /\ ~raised'
              => LET again == manage_trigger(triggers', call'.name,
                                             call'.action, "none")
                 IN again.issued = <<>> /\ again.triggers = triggers']_vars

C3_Witness ==
    /\ pc = "returned" /\ call.op = "manage_trigger" /\ ~raised
    /\ pre[call.name].runtime_state = "Started" /\ call.action = "start"
    /\ log = <<>> /\ triggers = pre

\* the calls a successful reset issues on a trigger found in state s
ResetOrder(n, s) ==
    (IF s = "Started" THEN <<<<"begin_stop", n>>>> ELSE <<>>)
    \o <<<<"delete", n>>, <<"create_or_update", n>>>>
    \o (IF s = "Started" THEN <<<<"begin_start", n>>>> ELSE <<>>)

\* C10: a reset_tumbling_with_start_time(name, t) call that raises nothing, on
\* a tumbling-window trigger in state s, ends with the trigger in the factory,
\* in state s, with start_time t, after stop (if s = Started), delete,
\* recreate, start (if s = Started), in that order
C10_ResetKeepsStateSetsStart ==
    (pc = "returned" /\ call.op = "reset" /\ ~raised)
        => /\ pre[call.name].exists
           /\ pre[call.name].type = "TumblingWindowTrigger"
           /\ triggers[call.name].exists
           /\ triggers[call.name].type = "TumblingWindowTrigger"
           /\ triggers[call.name].runtime_state = pre[call.name].runtime_state
           /\ triggers[call.name].start_time = call.start_time
           /\ log = ResetOrder(call.name, pre[call.name].runtime_state)
           /\ \A n \in TriggerNames \ {call.name} : triggers[n] = pre[n]

C10_Witness ==
    /\ pc = "returned" /\ call.op = "reset" /\ ~raised
    /\ pre[call.name].runtime_state = "Started"
    /\ pre[call.name].start_time # call.start_time
    /\ triggers[call.name].runtime_state = "Started"
    /\ triggers[call.name].start_time = call.start_time

\* old_fqdn occurs in s between "://" and a following "."
Anchored(old_fqdn, s) == \E i \in 1..Len(s) : MatchAt(old_fqdn, s, i)

\* C4: an update_linked_service_sf_account call (V1 or V2, dry_run true or
\* false) that read a stored value in which old_fqdn does not occur between
\* "://" and a following "." issues no create_or_update, leaves the stored
\* linked service unchanged and takes the warning branch
C4_NoWriteWithoutMatch ==
    (/\ pc = "returned" /\ call.op = "update_linked_service_sf_account"
     /\ ~raised /\ ~Anchored(call.old_fqdn, pre.value))
        => (log = <<>> /\ linkedService = pre /\ warned)

\* C5: a live update_linked_service_sf_account call on a stored value (V1
\* connectionString or V2 accountIdentifier) in which old_fqdn occurs between
\* "://" and a following "." leaves stored the original value with the anchored
\* occurrences of old_fqdn replaced by new_fqdn and every other part unchanged
C5_WritesAnchoredReplacement ==
    (/\ pc = "returned" /\ call.op = "update_linked_service_sf_account"
     /\ ~raised /\ ~call.dry_run /\ Anchored(call.old_fqdn, pre.value))
        => /\ linkedService.type = pre.type
           /\ linkedService.value =
                re_sub(call.old_fqdn, call.new_fqdn, pre.value)

\* C6: after a live scale_batch_pools pass over a domain in which no call
\* failed, the scale-down pool has 0 target dedicated nodes and the scale-up
\* pool max(1, n), n being the scale-down pool's count before; 5 and 0 become
\* 0 and 5, and a scale-down pool at 0 gives a scale-up pool at 1
C6_ScaledDownAndUp ==
    (/\ pc = "b_next" /\ call.op = "scale_batch_pools"
     /\ ~call.dry_run /\ ~domExc)
        => LET n == targetDedicatedNodes(pre.scaleDown) IN
           /\ targetDedicatedNodes(pools.scaleDown) = 0
           /\ pools.scaleUp = FixedScale(IF n >= 1 THEN n ELSE 1)
           /\ (pre.scaleDown = FixedScale(5) /\ pre.scaleUp = FixedScale(0))
                => (pools.scaleDown = FixedScale(0)
                    /\ pools.scaleUp = FixedScale(5))
           /\ n = 0 => targetDedicatedNodes(pools.scaleUp) = 1
           /\ pre.scaleDown.fixedScale => pools.scaleDown = FixedScale(0)

C6_Witness ==
    /\ pc = "b_next" /\ call.op = "scale_batch_pools"
    /\ ~call.dry_run /\ ~domExc
    /\ pre.scaleDown = FixedScale(5) /\ pre.scaleUp = FixedScale(0)
    /\ pools.scaleDown = FixedScale(0) /\ pools.scaleUp = FixedScale(5)
    /\ Len(log) = 2

\* C7: a scale_pool_nodes(target, dry_run) call on a pool whose current
\* targetDedicatedNodes equals target issues no pool update, dry_run or not,
\* leaves the pool as it is and, unless the read raised, returns the pool's
\* configuration unchanged
C7_NoUpdateAtTarget ==
    (/\ pc = "returned" /\ call.op = "scale_pool_nodes"
     /\ targetDedicatedNodes(pre[call.pool]) = call.target_nodes)
        => /\ log = <<>>
           /\ pools = pre
           /\ ~raised => result = [kind |-> "pool", config |-> pre[call.pool]]

C7_Witness ==
    /\ pc = "returned" /\ call.op = "scale_pool_nodes"
    /\ ~call.dry_run /\ ~raised
    /\ pre[call.pool] = FixedScale(3) /\ call.target_nodes = 3
    /\ log = <<>> /\ pools = pre
    /\ result = [kind |-> "pool", config |-> FixedScale(3)]

\* C8: in sync_key_vaults, dry-run or live, set_secret is never called for a
\* secret name whose source value equals the value the target vault already
\* holds under that name
C8_IdenticalNeverSet ==
    call.op = "sync_key_vaults"
        => \A n \in SecretNames :
            (pre.source[n] # NoSecret /\ pre.source[n] = pre.target[n])
                => \A i \in 1..Len(log) : log[i][2] # n

\* C9: after a live failover sync_key_vaults pass over a domain in which no
\* call failed, every secret of the source vault is in the target vault with
\* the source's value; the source vault and the target's other secrets are as
\* before
C9_TargetHoldsSourceSecrets ==
    (/\ pc = "k_next" /\ call.op = "sync_key_vaults"
     /\ ~call.dry_run /\ call.mode = "failover" /\ ~domExc /\ failed = {})
        => /\ vaults.source = pre.source
           /\ \A n \in SecretNames :
                IF pre.source[n] # NoSecret
                THEN vaults.target[n] = pre.source[n]
                ELSE vaults.target[n] = pre.target[n]

C9_Witness ==
    /\ pc = "k_next" /\ call.op = "sync_key_vaults"
    /\ ~call.dry_run /\ call.mode = "failover" /\ ~domExc /\ failed = {}
    /\ \E n, m \in SecretNames :
        /\ pre.source[n] # NoSecret /\ pre.target[n] = NoSecret
        /\ pre.source[m] # NoSecret /\ pre.target[m] # NoSecret
        /\ pre.target[m] # pre.source[m]
    /\ vaults.target = pre.source
    /\ Len(log) = 2

\* C11: with dry_run true, manage_adf_triggers, scale_batch_pools,
\* scale_pool_nodes, sync_key_vaults and update_linked_service_sf_account
\* issue no mutating call, and every cloud resource (locks, triggers, pools,
\* secrets, linked service) stays as it was before the run
C11_DryRunChangesNothing ==
    (call.dry_run /\ call.op # "none")
        => /\ log = <<>>
           /\ rgLocks = domainCfg.locks /\ triggers = domainCfg.triggers
           /\ call.op = "manage_adf_triggers"
                => (rgLocks = locksBefore /\ triggers = pre)
           /\ call.op \in {"scale_batch_pools", "scale_pool_nodes"}
                => pools = pre
           /\ call.op = "sync_key_vaults" => vaults = pre
           /\ call.op = "update_linked_service_sf_account"
                => linkedService = pre

C11_Witness ==
    /\ pc = "returned" /\ call.op = "manage_adf_triggers" /\ call.dry_run
    /\ dom = Len(Domains) /\ ~domExc
    /\ \E n \in LockNames : rgLocks[n].exists
    /\ \E n \in TriggerNames :
        /\ triggers[n].exists /\ triggers[n].type \in VALID_TRIGGER_TYPES
        /\ triggers[n].runtime_state # TargetState(call.action)

\* the expiry the credential gave the token tok
ActualExpiry(tok) == issued[tok[1]].expires_on

\* C12: for one caller and a moving clock, get_token asks the credential
\* exactly when no token is cached or the time read by the call is at or
\* after the cached token's actual expiry minus 5 minutes; every other call
\* returns the cached token and changes neither the token nor its expiry
C12_AsksExactlyWhenDue ==
    \A t \in Threads : tpc[t] = "done" =>
        LET l == tlocal[t]
            cached == l.before[1]
            due == \/ cached.token = None
                   \/ l.now >= ActualExpiry(cached.token) - Margin
        IN  /\ l.asked <=> due
            /\ ~l.asked => /\ l.returned = cached.token
                           /\ token = cached.token
                           /\ token_expiry = cached.token_expiry
            /\ (l.asked /\ ~l.raised)
                    => /\ l.returned = Some(l.token_response[1].token)
                       /\ token = l.returned
                       /\ token_expiry = Some(ActualExpiry(token) - Margin)

\* a cached token returned in the last minute before its margin, and a fresh
\* one fetched at the margin itself
C12_Witness ==
    /\ tpc[1] = "done" /\ ~tlocal[1].asked
    /\ tlocal[1].now = ActualExpiry(tlocal[1].returned) - Margin - 1
    /\ now = tlocal[1].now + 1
    /\ Len(issued) = 2

\* C13: with get_token calls running concurrently on one shared
\* AzureAuthentication, every call that returns gives a token issued by the
\* credential; once no call is running, the cached token and the cached expiry
\* come from the same issuance; and no call returns a cached token that is at
\* or past its own expiry minus 5 minutes
C13_RefreshRaceSafe ==
    /\ \A t \in Threads : (tpc[t] = "done" /\ ~tlocal[t].raised)
            => /\ tlocal[t].returned # None
               /\ tlocal[t].returned[1] \in 1..Len(issued)
    /\ ((\A t \in Threads : tpc[t] \in {"idle", "done"}) /\ token # None)
            => token_expiry = Some(ActualExpiry(token) - Margin)
    /\ \A t \in Threads : (tpc[t] = "done" /\ ~tlocal[t].asked)
            => tlocal[t].now < ActualExpiry(tlocal[t].returned) - Margin

\* C14: in the drivers' loops over the domains, a failure of any step for
\* one domain (building the client, listing, recreating the locks on the
\* error path) is caught and the later domains are still processed: no run
\* ends on an exception
C14_EveryFailureCaught == pc # "crashed"

\* stop, start, delete and create_or_update calls on a factory
FactoryCalls == {"begin_stop", "begin_start", "delete", "create_or_update"}

\* C15: no live driver issues a mutating call on a factory (a trigger stop,
\* start, delete or create_or_update, a linked-service create_or_update)
\* while a lock of the factory's resource group exists
C15_NoMutationUnderLock ==
    [][\A i \in (Len(log) + 1)..Len(log') :
            log'[i][1] \in FactoryCalls
                => \A n \in LockNames : ~rgLocks[n].exists]_vars

\* the blobs copy_container has called copy_blob for, in the order of the calls
Attempted ==
    LET calls == SelectSeq(log, LAMBDA e : e[1] = "copy_blob")
    IN  [i \in 1..Len(calls) |-> calls[i][2]]

\* C16: copy_container calls copy_blob for every blob the source listing
\* returned, once each and in the order of the listing, whether or not earlier
\* copies failed, and then returns normally; it raises only out of listing the
\* source container or ensuring the target container, and then no copy_blob
\* call has been made.
C16_EveryBlobAttemptedOnce ==
    call.op = "copy_container" =>
        /\ Attempted = SubSeq(blobs, 1, Len(Attempted))
        /\ pc = "returned" /\ ~raised =>
              /\ blobs = sourceSTG
              /\ Attempted = blobs
        /\ pc = "returned" /\ raised =>
              /\ Attempted = <<>>
              /\ log[Len(log)][1] \in
                    {"list_blobs", "create_container_if_not_exists"}

\* two blobs listed, the copy of the first failed, the second copied
C16_Witness ==
    /\ call.op = "copy_container" /\ pc = "returned" /\ ~raised
    /\ Len(blobs) = 2 /\ copied_count = 1
    /\ blobs[1] \notin targetSTG.blobs /\ blobs[2] \in targetSTG.blobs

\* the ADFTrigger entry of domain d as the static maps give it: the DR side
\* started and the environment's side stopped in failover, the reverse in
\* failback
MappedTrigger(d, environment, mode) ==
    LET dr == [resourceGroup |-> rg_map[d]["DR"], adf |-> adf_map[d]["DR"]]
        east == [resourceGroup |-> rg_map[d][environment],
                 adf |-> adf_map[d][environment]]
    IN  IF mode = "failover" THEN [start |-> dr, stop |-> east]
        ELSE [start |-> east, stop |-> dr]

\* the domains a call asks the ADFTrigger entries for
TriggerDomains(domain) == IF domain = "All" THEN adf_domains ELSE <<domain>>

\* json_data holds, for every domain asked for, the mapped entry, and no entry
\* starts and stops the same factory
TriggersMapped ==
    /\ ~raised
    /\ "ADFTrigger" \in DOMAIN json_data
    /\ LET t == json_data.ADFTrigger
           ds == TriggerDomains(call.domain)
       IN  /\ t.list = (call.domain = "All")
           /\ Len(t.items) = Len(ds)
           /\ \A i \in 1..Len(ds) :
                /\ t.items[i] = MappedTrigger(ds[i], call.environment, call.mode)
                /\ t.items[i].start.adf # t.items[i].stop.adf
                /\ t.items[i].start.resourceGroup
                        # t.items[i].stop.resourceGroup

\* C17 as stated: for every domain and every environment in {qa, prod},
\* generate_json with azure true maps ADFTrigger.start to the DR resource group
\* and factory and ADFTrigger.stop to the environment's in failover, and the
\* reverse in failback, each exactly the static maps' entry, and start and stop
\* never name the same factory.
C17_AsStated ==
    (/\ call.op = "generate_json" /\ pc = "returned"
     /\ call.azure /\ call.environment \in {"qa", "prod"})
        => TriggersMapped

\* C17: when no customer_json is given, generate_json with azure true and an
\* environment in {qa, prod} raises for the domain "Retail" asked for alone,
\* and for every other domain, and for every domain of the list built for
\* "All" (Retail among them), maps ADFTrigger.start to the DR resource group
\* and factory and ADFTrigger.stop to the environment's in failover, and the
\* reverse in failback, each exactly the static maps' entry, with start and
\* stop never naming the same factory.
C17_TriggerMapFollowsMode ==
    (/\ call.op = "generate_json" /\ pc = "returned"
     /\ call.azure /\ call.environment \in {"qa", "prod"}
     /\ ~Truthy(call.customer_json))
        => IF call.domain = "Retail"
           THEN raised
           ELSE TriggersMapped

\* a failback document for all domains of prod: Retail's east factory is
\* started and its DR factory stopped
C17_Witness ==
    /\ call.op = "generate_json" /\ pc = "returned" /\ ~raised
    /\ call.azure /\ call.domain = "All" /\ call.mode = "failback"
    /\ call.environment = "prod" /\ call.customer_json = None
    /\ json_data.ADFTrigger.items[7].start.adf = "prodRetailADF"
    /\ json_data.ADFTrigger.items[7].stop.adf = "DRRetailADF"

\* C18: when manage_all_triggers(action) has returned without raising, every
\* ScheduleTrigger and TumblingWindowTrigger of the factory has runtime state
\* Stopped for action stop and Started for action start, whatever the states
\* were before the call.
C18_AllTriggersInTargetState ==
    (call.op = "manage_all_triggers" /\ pc = "returned" /\ ~raised)
        => \A n \in TriggerNames :
                (triggers[n].exists /\ triggers[n].type \in VALID_TRIGGER_TYPES)
                    => triggers[n].runtime_state = TargetState(call.action)

\* a stop of all triggers that found one trigger started and one stopped
C18_Witness ==
    /\ call.op = "manage_all_triggers" /\ call.action = "stop"
    /\ pc = "returned" /\ ~raised
    /\ \A n \in TriggerNames :
            pre[n].exists /\ pre[n].type \in VALID_TRIGGER_TYPES
    /\ pre[1].runtime_state = "Started" /\ pre[2].runtime_state = "Stopped"
    /\ \A n \in TriggerNames : triggers[n].runtime_state = "Stopped"
    /\ log = <<<<"begin_stop", 1>>>>

\* the locker recorded, when release_locks was called, the locks the group had
RecordedCurrent == lock_objs = get_locks(pre)

\* C19 as stated: for a locker whose lock_objs holds the group's current
\* locks, after release_locks the group has no locks and the deleted flag is
\* true, and after the recreate_locks that follows the group has exactly the
\* recorded locks with their names, levels and notes.
C19_AsStated ==
    (call.op = "release_recreate" /\ RecordedCurrent) =>
        /\ pc = "released" => rgLocks = NoLocks /\ deleted
        /\ pc = "returned" /\ ~raised => rgLocks = pre

\* C19: for a locker whose lock_objs holds the group's current locks, when
\* release_locks returns the group has no locks, and the deleted flag is true
\* if any lock was recorded (with none recorded no call is made and the flag
\* is left as it was); when the recreate_locks that follows returns, the group
\* has exactly the locks it had before, each with its name, level and notes.
C19_ReleaseRecreateIdentity ==
    (call.op = "release_recreate" /\ RecordedCurrent) =>
        /\ pc = "released" =>
              /\ rgLocks = NoLocks
              /\ IF lock_objs # <<>> THEN deleted ELSE log = <<>>
        /\ pc = "returned" /\ ~raised =>
              /\ rgLocks = pre
              /\ get_locks(rgLocks) = lock_objs

\* a lock added through create_lock with a level and notes of its own, and
\* another one, released and recreated
C19_Witness ==
    /\ call.op = "release_recreate" /\ RecordedCurrent
    /\ pc = "returned" /\ ~raised /\ deleted
    /\ rgLocks = pre
    /\ rgLocks[1] = [exists |-> TRUE, level |-> "ReadOnly",
                     notes |-> "Test lock for automation"]
    /\ rgLocks[2] = LockOf(2)
    /\ Len(log) = 4

\* the statuses a pipeline run ends in
TerminalStatuses == {"Succeeded", "Failed", "Cancelled"}
\* run_and_fetch is running and has created its pipeline run
Polling == call.op = "run_and_fetch" /\ pc \in {"p_check", "p_sleep", "p_fetch"}
\* run_and_fetch has finished, by returning or by raising
Finished == call.op = "run_and_fetch" /\ pc = "returned"
\* no call to the factory has raised
CallsSucceeded == failed = {}

\* how run_and_fetch finishes: it returns only for a run that succeeded, and
\* then what it returns are the named activity's result sets; for a run that
\* failed or was cancelled it raises; and while the run has no terminal status
\* it finishes only because a call to the factory raised
FinishesByStatus ==
    Finished =>
        /\ ~raised =>
              /\ pipeline_run.status = "Succeeded" /\ status = "Succeeded"
              /\ call.activity_name # None
              /\ pipeline_run.activity = "resultSets"
              /\ result = [kind |-> "resultSets", run_id |-> run_id]
        /\ pipeline_run.status \in {"Failed", "Cancelled"} => raised
        /\ (run_id # None /\ pipeline_run.status \notin TerminalStatuses)
              => raised /\ ~CallsSucceeded

C21_NegativeTargetRejected ==
    (/\ pc = "returned" /\ call.op = "scale_pool_nodes"
     /\ call.target_nodes < 0)
        => /\ raised
           /\ reads = <<>> /\ log = <<>>
           /\ pools = pre
           /\ result = NoResult

\* a live call with target -1 on a pool of 3 nodes
C21_Witness ==
    /\ pc = "returned" /\ call.op = "scale_pool_nodes"
    /\ call.target_nodes = -1 /\ ~call.dry_run /\ raised
    /\ pre[call.pool] = FixedScale(3) /\ pools = pre
    /\ reads = <<>> /\ log = <<>>

\* the calls of the log that address trigger n
TriggerCalls == {"begin_stop", "begin_start", "delete", "create_or_update"}
AboutTrigger(e, n) == e[1] \in TriggerCalls /\ e[2] = n

\* every delete of the log is followed at once by its create_or_update, or the
\* create is still to come, or the create raised: then no later call
\* addresses the trigger, it is absent, and the driver has caught the error
DeleteAnswered ==
    \A i \in DOMAIN log :
        log[i][1] = "delete" =>
            LET n == log[i][2] IN
            \/ i < Len(log) /\ log[i + 1] = <<"create_or_update", n>>
            \/ i = Len(log) /\ pc = "r_create"
            \/ /\ \A j \in (i + 1)..Len(log) : ~AboutTrigger(log[j], n)
               /\ ~triggers[n].exists
               /\ pc = "d_reset_except" \/ resetExc

\* create_or_update raises: the exception leaves the reset with nothing issued
CreateRaises ==
    (pc = "r_create" /\ pc' # "r_start")
        => /\ pc' = exc /\ exc = "d_reset_except"
           /\ UNCHANGED <<triggers, log>>
           /\ ~triggers[ResetName].exists

\* the driver's handler only records the error; the loop is at the next trigger
HandlerOnlyLogs ==
    pc = "d_reset_except"
        => /\ pc' = "d_reset" /\ resetExc'
           /\ UNCHANGED <<triggers, rgLocks, log, tlist, k>>

\* C22: when reset_tumbling_with_start_time has deleted the trigger and the
\* following create_or_update raises, the exception propagates and the trigger
\* stays absent: no recreate, restart or other call on it follows, and the
\* trigger driver only logs the error and goes on with the next trigger
C22_FailedRecreateLeavesTriggerAbsent ==
    /\ []DeleteAnswered
    /\ [][CreateRaises]_vars
    /\ [][HandlerOnlyLogs]_vars

\* the first tumbling trigger was deleted and not recreated, the second was
\* stopped, deleted and recreated after it, and the driver is past the loop
C22_Witness ==
    /\ pc = "d_verify" /\ resetExc /\ Len(tlist) = 2
    /\ Len(log) >= 4
    /\ \E i \in 1..(Len(log) - 3) :
        /\ log[i] = <<"delete", tlist[1]>>
        /\ log[i + 1] = <<"begin_stop", tlist[2]>>
        /\ log[i + 2] = <<"delete", tlist[2]>>
        /\ log[i + 3] = <<"create_or_update", tlist[2]>>
    /\ ~triggers[tlist[1]].exists /\ triggers[tlist[2]].exists

\* the calls of the log that address a trigger address one whose type, at the
\* start of the run, was in types
TouchesOnly(calls, types) ==
    \A i \in DOMAIN log :
        log[i][1] \in calls => pre[log[i][2]].type \in types

\* C23: manage_all_triggers and the trigger driver stop, start, delete and
\* recreate only triggers of type ScheduleTrigger or TumblingWindowTrigger;
\* only TumblingWindowTrigger triggers are deleted and recreated, by the driver
\* and by reset_tumbling_with_start_time alike; list_triggers with a filter
\* that names any other type raises without listing the factory
C23_OtherTypesUntouched ==
    /\ call.op \in {"manage_all_triggers", "manage_adf_triggers"}
        => TouchesOnly(TriggerCalls, {"ScheduleTrigger", "TumblingWindowTrigger"})
    /\ call.op \in {"manage_all_triggers", "manage_adf_triggers", "reset"}
        => TouchesOnly({"delete", "create_or_update"}, {"TumblingWindowTrigger"})
    /\ (pc = "returned" /\ call.op = "list_triggers"
            /\ call.trigger_type \notin {"None", "", "ScheduleTrigger",
                                         "TumblingWindowTrigger"})
        => raised /\ log = <<>> /\ result = NoResult /\ triggers = pre

\* the driver has started a factory with a schedule, a tumbling window trigger
\* reset, beside a trigger of another type that it left alone
C23_Witness ==
    /\ call.op = "manage_adf_triggers" /\ call.action = "start"
    /\ pc = "d_verify" /\ ~resetExc
    /\ pre[1].type = "BlobEventsTrigger" /\ triggers[1] = pre[1]
    /\ pre[2].type = "TumblingWindowTrigger"
    /\ pre[2].runtime_state = "Stopped"
    /\ log = <<<<"begin_start", 2>>, <<"begin_stop", 2>>, <<"delete", 2>>,
               <<"create_or_update", 2>>, <<"begin_start", 2>>>>

\* C24: when config.mode of build.json is failback, sync_key_vaults returns
\* before it builds a vault client: it lists and gets no secret and sets none,
\* for dry_run true and false and whatever the vaults of the kvSync entries
\* hold, and every vault is as before
C24_FailbackSkipsSync ==
    (call.op = "sync_key_vaults" /\ call.mode = "failback")
        => /\ pc = "returned" /\ ~raised /\ dom = 1
           /\ secrets = <<>> /\ log = <<>> /\ failed = {}
           /\ vaults = pre /\ domainCfg.vaults = pre

\* a live failback run on vaults where a failover run would copy a secret
C24_Witness ==
    /\ pc = "returned" /\ call.op = "sync_key_vaults"
    /\ call.mode = "failback" /\ ~call.dry_run
    /\ \E n \in SecretNames :
        pre.source[n] # NoSecret /\ pre.target[n] # pre.source[n]
    /\ vaults = pre /\ log = <<>>

\* the delete calls release_locks has made in this domain
Released == {i \in DOMAIN log : log[i][1] = "delete_lock"}

\* C25: when release_locks has raised after deleting at least one but not all
\* of the recorded locks, the deleted flag is false, the driver's handler
\* calls recreate_locks, which creates no lock, and when the driver moves on
\* to the next domain the locks deleted are absent and the others as they were
C25_PartialReleaseNotRestored ==
    (/\ call.op = "manage_adf_triggers" /\ pc # "release"
     /\ Released # {} /\ Cardinality(Released) < Len(lock_objs))
        => /\ ~deleted
           /\ pc = "d_except" \/ domExc
           /\ \A i \in DOMAIN log : log[i][1] # "create_lock"
           /\ \A n \in LockNames :
                rgLocks[n] = IF \E i \in Released : log[i][2] = n
                             THEN AbsentLock ELSE locksBefore[n]
           /\ pc \in {"d_except", "recreate", "d_next", "returned"}
           /\ pc \in {"d_next", "returned"} => recreateCalled /\ ~raised

\* of two locks the first was deleted, the second delete raised, and the
\* handler's recreate_locks has returned
C25_Witness ==
    /\ call.op = "manage_adf_triggers" /\ pc = "d_next" /\ dom = 1
    /\ Len(lock_objs) = 2 /\ log = <<<<"delete_lock", 1>>>>
    /\ ~deleted /\ recreateCalled
    /\ locksBefore[1].exists /\ ~rgLocks[1].exists
    /\ rgLocks[2] = locksBefore[2]

\* a call was made on the scale-up pool in this domain, or the pool changed
UpTouched ==
    \/ \E i \in DOMAIN reads : reads[i] = "scaleUp"
    \/ \E i \in DOMAIN log : log[i][1] = "scaleUp"
    \/ pools.scaleUp # pre.scaleUp
\* the read of the scale-down pool or its scale-to-0 call raised
DownFailed == \E f \in failed : f[1] = "scaleDown"

\* C26: in scale_batch_pools a call on the scale-up pool comes only after the
\* scale-down pool's configuration was read and its scale-to-0 call returned
\* without error; when the read or the scale-down raised, no call is made on
\* the scale-up pool in that domain and the pool keeps its node count
C26_UpOnlyAfterDown ==
    call.op = "scale_batch_pools"
        => /\ UpTouched
                => /\ ~DownFailed
                   /\ Len(reads) = 3
                   /\ reads = <<"scaleDown", "scaleDown", "scaleUp">>
                   /\ current_nodes = targetDedicatedNodes(pre.scaleDown)
                   /\ ~call.dry_run
                        => targetDedicatedNodes(pools.scaleDown) = 0
           /\ DownFailed
                => /\ pc \in {"b_except", "b_next", "returned"}
                   /\ pools.scaleUp = pre.scaleUp
           /\ pc = "b_up" => ~DownFailed /\ Len(reads) = 2

\* the update of the scale-down pool from 3 to 0 raised in a live run: the
\* scale-up pool still has its 1 node
C26_Witness ==
    /\ call.op = "scale_batch_pools" /\ ~call.dry_run /\ pc = "b_next"
    /\ failed = {<<"scaleDown", "scale_pool_nodes">>}
    /\ pre.scaleDown = FixedScale(3) /\ pre.scaleUp = FixedScale(1)
    /\ log = <<<<"scaleDown", "update", 0>>>>
    /\ pools.scaleUp = FixedScale(1)
    /\ reads = <<"scaleDown", "scaleDown">>

\* C27: scale_batch_pools is not idempotent across runs: after a live run
\* without error that moved n >= 2 nodes (scale-down pool n to 0, scale-up
\* pool to n), a second live run on the same build.json reads 0 from the
\* scale-down pool and rescales the scale-up pool from n to 1
C27_SecondRunShrinksToOne ==
    (/\ call.op = "scale_batch_pools" /\ ~call.dry_run
     /\ pc = "b_next" /\ ~domExc /\ moved >= 2)
        => /\ targetDedicatedNodes(pre.scaleDown) = 0
           /\ pre.scaleUp = FixedScale(moved)
           /\ current_nodes = 0
           /\ pools.scaleDown = pre.scaleDown
           /\ pools.scaleUp = FixedScale(1)
           /\ log = <<<<"scaleUp", "update", 1>>>>

\* the second live run after one that moved 3 nodes
C27_Witness ==
    /\ call.op = "scale_batch_pools" /\ ~call.dry_run
    /\ pc = "b_next" /\ ~domExc /\ moved = 3
    /\ pre.scaleDown = FixedScale(0) /\ pre.scaleUp = FixedScale(3)
    /\ pools.scaleDown = FixedScale(0) /\ pools.scaleUp = FixedScale(1)

\* the copy_container calls of the list that are over
Handled ==
    IF pc = "returned" /\ <<"AzureStorageCopy", 0>> \notin failed /\ ~raised
    THEN DOMAIN call.containers
    ELSE 1..(container_i - 1)
\* the last call made for container c
LastCall(c) ==
    CHOOSE i \in Handled :
        /\ call.containers[i] = c
        /\ \A j \in Handled : call.containers[j] = c => j <= i

\* C28: run_storage_sync records one status for every container asked for:
\* success when its copy_container call returned (even when blob copies
\* failed), error when the call raised or the copy client could not be built;
\* a container not asked for gets none
C28_OneStatusPerContainer ==
    call.op = "run_storage_sync"
        => \A c \in ContainerNames :
            IF <<"AzureStorageCopy", 0>> \in failed
            THEN /\ pc = "returned"
                 /\ sync_results[c] =
                        IF \E i \in DOMAIN call.containers :
                                call.containers[i] = c
                        THEN "error" ELSE "none"
            ELSE IF \E i \in Handled : call.containers[i] = c
            THEN sync_results[c] =
                    IF <<"copy_container", LastCall(c)>> \in failed
                    THEN "error" ELSE "success"
            ELSE sync_results[c] = "none"

\* two containers: the copy of the first raised, the second returned though
\* one of its two blob copies failed
C28_Witness ==
    /\ call.op = "run_storage_sync" /\ pc = "returned" /\ ~raised
    /\ call.containers = <<"batch-pool", "scriptfiles">>
    /\ failed = {<<"copy_container", 1>>}
    /\ sync_results["batch-pool"] = "error"
    /\ sync_results["scriptfiles"] = "success"
    /\ Len(blobs) = 2 /\ copied_count = 1

\* C29: every build.json that generate_json produces with azure true is
\* accepted by get_stg_sync_config, which returns from it a "from" and a "to"
\* entry naming a storage account, for a single domain and for domain "All"
C29_GeneratedStgSyncAccepted ==
    (call.op = "get_stg_sync_config" /\ call.azure
        /\ ~Truthy(call.customer_json))
        => /\ ~raised
           /\ result.kind = "StgSync"
           /\ "stg" \in DOMAIN result.config["from"]
           /\ "stg" \in DOMAIN result.config["to"]

\* how often the domain FQDN is in a list
Occurrences(fqdns) == Cardinality({i \in DOMAIN fqdns : fqdns[i] = domain_fqdn})
\* a live pass over a factory in which both endpoints were read and no update
\* raised
CleanPass ==
    /\ call.op = "manage_private_endpoints" /\ ~call.dry_run
    /\ pc \in {"e_next", "returned"} /\ ~domExc /\ failed = {}

====
